---- MODULE Spec2Model ----
(***************************************************************************)
(* Verification model of the two engines of the UI validator:              *)
(*   - ComparisonEngine (src/src/services/validator/index.ts, 297-1016)    *)
(*   - VisualDiffEngine (src/src/electron/preload.ts, 95-514)              *)
(*                                                                         *)
(* Values of computed styles are records [kind, n]:                        *)
(*   kind "px"     a length such as "12px" (n is the number)               *)
(*   kind "num"    a unitless number such as the font weight "700"         *)
(*   kind "normal" the keyword "normal"                                    *)
(*   kind "absent" the property is undefined or the empty string           *)
(*   kind "color"  a colour chroma-js can parse; n is its position on a    *)
(*                 one-dimensional colour axis, and chroma.deltaE of two   *)
(*                 colours is the distance of their positions              *)
(*   kind "rgba0"  the exact string 'rgba(0, 0, 0, 0)'                     *)
(*   kind "bad"    a string chroma-js cannot parse (chroma() throws)       *)
(* Identifiers, class names and component names are sequences of           *)
(* one-character strings; selectors are sequences of strings.              *)
(***************************************************************************)
EXTENDS Integers, Sequences, FiniteSets, TLC

VARIABLES
  webAnalysis,        \* compare(): the WebAnalysisResult argument (domTree)
  figmaAnalysis,      \* compare(): the FigmaAnalysisResult argument
  mismatches,         \* ComparisonEngine.mismatches
  mismatchIdCounter,  \* ComparisonEngine.mismatchIdCounter
  result,             \* the ComparisonResult returned by the last compare()
  pc,                 \* "idle" before compare(), "done" after it returned
  arrays,             \* the mismatch arrays the engine allocated, by identity
  mismatchesRef,      \* which of arrays this.mismatches is
  returned,           \* the results earlier compare() calls handed out
  image1,             \* VisualDiffEngine.compare(): the PNG of the first argument
  image2,             \* VisualDiffEngine.compare(): the PNG of the second argument
  diffResult,         \* the VisualDiffResult returned
  diffError,          \* the error the promise of compare() was rejected with
  dpc,                \* "idle" before the visual compare, "done" or "rejected" after
  regions,            \* mergeNearbyRegions(): the input list of boxes
  merged,             \* mergeNearbyRegions(regions, 20)
  remerged,           \* mergeNearbyRegions(merged, 20)
  mpc,                \* "idle", "merged", "remerged"
  floodInput,         \* findDiffAreas step by step: the images compared, the stack cap
  floodDiff,          \* findDiffAreas(): the diff image
  scanKey,            \* findDiffAreas(): pixelKey of the row-major scan
  scanVisited,        \* findDiffAreas(): the visited set
  scanAreas,          \* findDiffAreas(): areas
  fill,               \* floodFillRegion(): stack, visited, bounding box, break
  fills,              \* the floodFillRegion() calls that returned, in order
  foundAreas,         \* what findDiffAreas() returned
  fpc,                \* "start", "scan", "fill", "done"
  merging,            \* mergeNearbyRegions() step by step: its locals and position
  diffCalls,          \* overlapping VisualDiffEngine.compare() calls: locals and position
  lastVisited,        \* the visited set the last findDiffAreas() call was left with
  validations,        \* ValidatorService.validate() calls: position, events, error
  webAnalyzer,        \* the service's WebAnalyzer: its fields browser, context, page
  closedObjects       \* the browsers, contexts and pages that have been closed

vars == <<webAnalysis, figmaAnalysis, mismatches, mismatchIdCounter, result, pc,
          arrays, mismatchesRef, returned,
          image1, image2, diffResult, diffError, dpc, regions, merged, remerged, mpc,
          floodInput, floodDiff, scanKey, scanVisited, scanAreas, fill, fills,
          foundAreas, fpc, merging, diffCalls, lastVisited,
          validations, webAnalyzer, closedObjects>>

compareVars == <<webAnalysis, figmaAnalysis, mismatches, mismatchIdCounter, result, pc,
                 arrays, mismatchesRef, returned>>
diffVars == <<image1, image2, diffResult, diffError, dpc>>
mergeVars == <<regions, merged, remerged, mpc>>
floodVars == <<floodInput, floodDiff, scanKey, scanVisited, scanAreas, fill, fills,
               foundAreas, fpc>>
\* the variables of the specifications that run a handler step by step
overlapVars == <<diffCalls, lastVisited>>
validateVars == <<validations, webAnalyzer, closedObjects>>
stepVars == <<floodVars, merging, overlapVars, validateVars>>

(***************************************************************************)
(* Bounds of the model.                                                    *)
(***************************************************************************)
MaxTokens == 2      \* longest token collection drawn (besides the tests' own)
MaxSiblings == 2    \* most top-level elements of a drawn domTree

(***************************************************************************)
(* Value helpers.                                                          *)
(***************************************************************************)
Px(n) == [kind |-> "px", n |-> n]
Num(n) == [kind |-> "num", n |-> n]
Col(n) == [kind |-> "color", n |-> n]
Absent == [kind |-> "absent", n |-> 0]
Normal == [kind |-> "normal", n |-> 0]
Rgba0 == [kind |-> "rgba0", n |-> 0]
BadColor == [kind |-> "bad", n |-> 0]

Abs(x) == IF x < 0 THEN -x ELSE x
Max(a, b) == IF a > b THEN a ELSE b
Min(a, b) == IF a < b THEN a ELSE b

\* JavaScript truthiness of a style string: undefined and "" are falsy
Truthy(v) == v.kind # "absent"

\* parseFloat(s) || dflt : NaN (no leading number) and 0 both give dflt
ParseFloatOr(v, dflt) ==
  IF v.kind \in {"px", "num"} /\ v.n # 0 THEN v.n ELSE dflt

\* parseFloat(s) / parseInt(s, 10) of a numeric style string
ParseNumber(v) == v.n

\* Number.POSITIVE_INFINITY, the initial minDeltaE of findColorMismatch
Infinity == 1000000

\* a deviation is a non-negative rational num/den
Dev(num, den) == [num |-> num, den |-> den]

THRESHOLDS ==
  [color        |-> [deltaE |-> 5, critical |-> 20, major |-> 10],
   fontSize     |-> [pixels |-> 2, critical |-> 8, major |-> 4],
   spacing      |-> [pixels |-> 4, critical |-> 16, major |-> 8],
   borderRadius |-> [pixels |-> 2, critical |-> 8, major |-> 4],
   \* lineHeight thresholds 0.1, 0.3, 0.2 in tenths
   lineHeight   |-> [ratio |-> 1, critical |-> 3, major |-> 2]]

(***************************************************************************)
(* Severity calculation methods.  The argument is a rational num/den.      *)
(***************************************************************************)
getColorSeverity(d) ==
  IF d.num >= THRESHOLDS.color.critical * d.den THEN "critical"
  ELSE IF d.num >= THRESHOLDS.color.major * d.den THEN "major"
  ELSE "minor"

getFontSizeSeverity(d) ==
  IF d.num >= THRESHOLDS.fontSize.critical * d.den THEN "critical"
  ELSE IF d.num >= THRESHOLDS.fontSize.major * d.den THEN "major"
  ELSE "minor"

\* the thresholds themselves taken into the lower band
getSpacingSeverityStrict(d) ==
  IF d.num > THRESHOLDS.spacing.critical * d.den THEN "critical"
  ELSE IF d.num > THRESHOLDS.spacing.major * d.den THEN "major"
  ELSE "minor"

getSpacingSeverity(d) ==
  IF d.num >= THRESHOLDS.spacing.critical * d.den THEN "critical"
  ELSE IF d.num >= THRESHOLDS.spacing.major * d.den THEN "major"
  ELSE "minor"

getBorderRadiusSeverity(d) ==
  IF d.num >= THRESHOLDS.borderRadius.critical * d.den THEN "critical"
  ELSE IF d.num >= THRESHOLDS.borderRadius.major * d.den THEN "major"
  ELSE "minor"

\* the argument is the ratio difference num/den; thresholds are in tenths
getLineHeightSeverity(d) ==
  IF 10 * d.num >= THRESHOLDS.lineHeight.critical * d.den THEN "critical"
  ELSE IF 10 * d.num >= THRESHOLDS.lineHeight.major * d.den THEN "major"
  ELSE "minor"

(***************************************************************************)
(* Strings of identifiers.                                                 *)
(***************************************************************************)
toLowerCase(s) ==
  [i \in 1..Len(s) |->
     IF s[i] = "A" THEN "a" ELSE IF s[i] = "B" THEN "b"
     ELSE IF s[i] = "C" THEN "c" ELSE s[i]]

\* String.prototype.includes
includes(s, sub) ==
  \E i \in 1..(Len(s) + 1) :
     /\ i + Len(sub) - 1 <= Len(s)
     /\ SubSeq(s, i, i + Len(sub) - 1) = sub

\* className.split(' ')[0]
RECURSIVE FirstWord(_)
FirstWord(s) ==
  IF s = <<>> \/ Head(s) = " " THEN <<>>
  ELSE <<Head(s)>> \o FirstWord(Tail(s))

NthChild(k) == <<" > ", ":nth-child(", ToString(k), ")">>

buildSelector(element, path) ==
  IF element.id # <<>> THEN <<"#">> \o element.id
  ELSE IF element.className # <<>> /\ FirstWord(element.className) # <<>>
       THEN <<".">> \o FirstWord(element.className)
  ELSE IF path # <<>> THEN path
  ELSE <<element.tagName>>

(***************************************************************************)
(* The engine state threaded through a compare() call: this.mismatches and *)
(* this.mismatchIdCounter as a record st.  Statements run in order, and    *)
(* what a statement leaves is what the next one starts from:               *)
(*   CHOOSE after \in {rest(s) : s \in {first}} : TRUE                      *)
(* is the engine after the statements `rest`, run on the engine s that the *)
(* statement `first` leaves.                                               *)
(***************************************************************************)
NoComponent == <<"undefined">>

ElementRef(element, selector) ==
  [selector |-> selector, tagName |-> element.tagName,
   id |-> element.id, className |-> element.className]

\* the Omit<StyleMismatch, 'id'> object literal handed to addMismatch
NewMismatch(category, property, expected, actual, element, selector, figmaComponent, deviation, severity) ==
  [category |-> category, property |-> property,
   expectedValue |-> expected, actualValue |-> actual,
   element |-> ElementRef(element, selector),
   figmaComponent |-> figmaComponent,
   deviation |-> deviation, severity |-> severity]

\* id: `mismatch-${++this.mismatchIdCounter}`, kept as the number
addMismatch(st, m) ==
  [mismatches |-> Append(st.mismatches,
                         [id |-> st.mismatchIdCounter + 1,
                          category |-> m.category, property |-> m.property,
                          expectedValue |-> m.expectedValue,
                          actualValue |-> m.actualValue,
                          element |-> m.element,
                          figmaComponent |-> m.figmaComponent,
                          deviation |-> m.deviation, severity |-> m.severity]),
   mismatchIdCounter |-> st.mismatchIdCounter + 1]

(***************************************************************************)
(* compareColors / findColorMismatch                                       *)
(***************************************************************************)
NoMismatch == [found |-> FALSE, expected |-> Absent, actual |-> Absent,
               deviation |-> Dev(0, 1)]

\* chroma(s) succeeds
Parseable(c) == c.kind = "color"

\* chroma.deltaE(a, b)
deltaE(a, b) == Abs(a.n - b.n)

\* the for-loop of findColorMismatch from token k on
RECURSIVE ColorLoop(_, _, _, _, _)
ColorLoop(actualChroma, figmaColors, k, minDeltaE, closestColor) ==
  IF k > Len(figmaColors)
  THEN [minDeltaE |-> minDeltaE, closestColor |-> closestColor]
  ELSE LET figmaColor == figmaColors[k] IN
       IF ~Parseable(figmaColor.hex)
       THEN ColorLoop(actualChroma, figmaColors, k + 1, minDeltaE, closestColor)
       ELSE LET d == deltaE(actualChroma, figmaColor.hex) IN
            IF d < minDeltaE
            THEN ColorLoop(actualChroma, figmaColors, k + 1, d, figmaColor)
            ELSE ColorLoop(actualChroma, figmaColors, k + 1, minDeltaE, closestColor)

findColorMismatch(actualColor, figmaColors) ==
  IF ~Parseable(actualColor) THEN NoMismatch
  ELSE LET r == ColorLoop(actualColor, figmaColors, 1, Infinity, figmaColors[1]) IN
       IF r.minDeltaE <= THRESHOLDS.color.deltaE THEN NoMismatch
       ELSE [found |-> TRUE, expected |-> r.closestColor.hex,
             actual |-> Col(actualColor.n), deviation |-> Dev(r.minDeltaE, 1)]

\* one colour check of processElement: text, background or border colour
ColorCheck(st, element, selector, figmaColors, prop, category) ==
  LET m == findColorMismatch(element.computedStyles[prop], figmaColors) IN
  IF m.found
  THEN addMismatch(st, NewMismatch(category, prop, m.expected, m.actual,
                                   element, selector, NoComponent,
                                   m.deviation, getColorSeverity(m.deviation)))
  ELSE st

RECURSIVE ColorsElement(_, _, _, _)
RECURSIVE ColorsChildren(_, _, _, _, _)
\* processElement of compareColors
ColorsElement(st, element, path, figmaColors) ==
  LET selector == buildSelector(element, path)
      styles == element.computedStyles
      s1 == IF Truthy(styles.color)
            THEN ColorCheck(st, element, selector, figmaColors, "color", "color")
            ELSE st
      s2 == IF Truthy(styles.backgroundColor) /\ styles.backgroundColor # Rgba0
            THEN ColorCheck(s1, element, selector, figmaColors, "backgroundColor", "color")
            ELSE s1
      s3 == IF Truthy(styles.borderColor) /\ styles.borderWidth # Px(0)
            THEN ColorCheck(s2, element, selector, figmaColors, "borderColor", "border")
            ELSE s2
  IN CHOOSE after \in
       {ColorsChildren(s, element.children, 1, selector, figmaColors) : s \in {s3}} : TRUE

\* children.forEach((child, index) => processElement(child, ...))
ColorsChildren(st, children, k, prefix, figmaColors) ==
  IF k > Len(children) THEN st
  ELSE CHOOSE after \in
         {ColorsChildren(s, children, k + 1, prefix, figmaColors) :
            s \in {ColorsElement(st, children[k], prefix \o NthChild(k),
                                 figmaColors)}} : TRUE

compareColors(st, domTree, figmaColors) ==
  IF Len(figmaColors) = 0 THEN st
  ELSE ColorsChildren(st, domTree, 1, <<"body">>, figmaColors)

(***************************************************************************)
(* compareTypography / findClosestTypography                               *)
(***************************************************************************)
\* the for-loop of findClosestTypography from token k on
RECURSIVE ClosestTypoLoop(_, _, _, _, _, _)
ClosestTypoLoop(value, typography, property, k, minDiff, closest) ==
  IF k > Len(typography) THEN closest
  ELSE LET typo == typography[k]
           diff == Abs(value - typo[property])
       IN IF diff < minDiff
          THEN ClosestTypoLoop(value, typography, property, k + 1, diff, typo)
          ELSE ClosestTypoLoop(value, typography, property, k + 1, minDiff, closest)

\* the last of the nearest tokens instead of the first
findClosestTypographyLast(value, typography, property) ==
  typography[CHOOSE i \in 1..Len(typography) :
               \A j \in 1..Len(typography) :
                  \/ Abs(value - typography[i][property]) < Abs(value - typography[j][property])
                  \/ /\ Abs(value - typography[i][property]) = Abs(value - typography[j][property])
                     /\ j <= i]

\* called with a non-empty collection only (compareTypography returns early)
findClosestTypography(value, typography, property) ==
  ClosestTypoLoop(value, typography, property, 1,
                  Abs(value - typography[1][property]), typography[1])

\* the font-size check with the expected and the actual value exchanged
FontSizeCheckSwapped(st, element, selector, figmaTypography) ==
  LET styles == element.computedStyles
      actualSize == ParseNumber(styles.fontSize)
      closestTypo == findClosestTypography(actualSize, figmaTypography, "fontSize")
      d == Abs(actualSize - closestTypo.fontSize)
  IN IF d > THRESHOLDS.fontSize.pixels
     THEN addMismatch(st, NewMismatch("typography", "fontSize",
                            styles.fontSize, Px(closestTypo.fontSize),
                            element, selector, NoComponent,
                            Dev(d, 1), getFontSizeSeverity(Dev(d, 1))))
     ELSE st

\* "Check font size"
FontSizeCheck(st, element, selector, figmaTypography) ==
  LET styles == element.computedStyles
      actualSize == ParseNumber(styles.fontSize)
      closestTypo == findClosestTypography(actualSize, figmaTypography, "fontSize")
      d == Abs(actualSize - closestTypo.fontSize)
  IN IF d > THRESHOLDS.fontSize.pixels
     THEN addMismatch(st, NewMismatch("typography", "fontSize",
                            Px(closestTypo.fontSize), styles.fontSize,
                            element, selector, NoComponent,
                            Dev(d, 1), getFontSizeSeverity(Dev(d, 1))))
     ELSE st

\* "Check font weight"
FontWeightCheck(st, element, selector, figmaTypography) ==
  LET styles == element.computedStyles
      actualWeight == ParseNumber(styles.fontWeight)
      closestTypo == findClosestTypography(actualWeight, figmaTypography, "fontWeight")
  IN IF actualWeight # closestTypo.fontWeight
     THEN addMismatch(st, NewMismatch("typography", "fontWeight",
                            Num(closestTypo.fontWeight), styles.fontWeight,
                            element, selector, NoComponent,
                            Dev(Abs(actualWeight - closestTypo.fontWeight), 1),
                            "minor"))
     ELSE st

\* "Check line height": the loop over the tokens from token k on, which
\* stops at the first token whose ratio is more than 0.1 away.
\* Ratios are kept exact: actualRatio = actualLineHeight / fontSize and
\* expectedRatio = expected2 / (2 * typo.fontSize), where expected2 is twice
\* the expected line height (fontSize * 1.5 for a token without a number).
RECURSIVE LineHeightLoop(_, _, _, _, _, _, _)
LineHeightLoop(st, element, selector, figmaTypography, k, actualLineHeight, fontSize) ==
  IF k > Len(figmaTypography) THEN st
  ELSE LET typo == figmaTypography[k]
           expected2 == IF typo.lineHeight.kind = "num"
                        THEN 2 * typo.lineHeight.n ELSE 3 * fontSize
           num == Abs(2 * actualLineHeight * typo.fontSize - expected2 * fontSize)
           den == 2 * fontSize * typo.fontSize
       IN IF 10 * num > THRESHOLDS.lineHeight.ratio * den
          THEN addMismatch(st, NewMismatch("typography", "lineHeight",
                                 Px(expected2 \div 2), element.computedStyles.lineHeight,
                                 element, selector, NoComponent,
                                 Dev(100 * num, den),
                                 getLineHeightSeverity(Dev(num, den))))
          ELSE LineHeightLoop(st, element, selector, figmaTypography, k + 1,
                              actualLineHeight, fontSize)

RECURSIVE TypographyElement(_, _, _, _)
RECURSIVE TypographyChildren(_, _, _, _, _)
\* processElement of compareTypography
TypographyElement(st, element, path, figmaTypography) ==
  LET selector == buildSelector(element, path)
      styles == element.computedStyles
      s1 == IF Truthy(styles.fontSize)
            THEN FontSizeCheck(st, element, selector, figmaTypography)
            ELSE st
      s2 == IF Truthy(styles.fontWeight)
            THEN FontWeightCheck(s1, element, selector, figmaTypography)
            ELSE s1
      s3 == IF Truthy(styles.lineHeight) /\ styles.lineHeight # Normal
            THEN LineHeightLoop(s2, element, selector, figmaTypography, 1,
                                ParseNumber(styles.lineHeight),
                                ParseFloatOr(styles.fontSize, 16))
            ELSE s2
  IN CHOOSE after \in
       {TypographyChildren(s, element.children, 1, selector, figmaTypography) :
          s \in {s3}} : TRUE

TypographyChildren(st, children, k, prefix, figmaTypography) ==
  IF k > Len(children) THEN st
  ELSE CHOOSE after \in
         {TypographyChildren(s, children, k + 1, prefix, figmaTypography) :
            s \in {TypographyElement(st, children[k], prefix \o NthChild(k),
                                     figmaTypography)}} : TRUE

compareTypography(st, domTree, figmaTypography) ==
  IF Len(figmaTypography) = 0 THEN st
  ELSE TypographyChildren(st, domTree, 1, <<"body">>, figmaTypography)

(***************************************************************************)
(* compareSpacing / findSpacingMismatch                                    *)
(***************************************************************************)
NoSpacingMismatch == [found |-> FALSE, expected |-> 0, deviation |-> 0]

RECURSIVE SpacingLoop(_, _, _, _, _)
SpacingLoop(actual, spacingValues, k, minDiff, closest) ==
  IF k > Len(spacingValues) THEN [minDiff |-> minDiff, closest |-> closest]
  ELSE LET diff == Abs(actual - spacingValues[k]) IN
       IF diff < minDiff
       THEN SpacingLoop(actual, spacingValues, k + 1, diff, spacingValues[k])
       ELSE SpacingLoop(actual, spacingValues, k + 1, minDiff, closest)

findSpacingMismatch(actual, spacingValues) ==
  IF Len(spacingValues) = 0 THEN NoSpacingMismatch
  ELSE LET r == SpacingLoop(actual, spacingValues, 1,
                            Abs(actual - spacingValues[1]), spacingValues[1])
       IN IF r.minDiff <= THRESHOLDS.spacing.pixels THEN NoSpacingMismatch
          ELSE [found |-> TRUE, expected |-> r.closest, deviation |-> r.minDiff]

\* one padding, margin or gap check
SpacingCheck(st, element, selector, spacingValues, prop) ==
  LET value == ParseFloatOr(element.computedStyles[prop], 0)
      mismatch == findSpacingMismatch(value, spacingValues)
  IN IF value > 0 /\ mismatch.found
     THEN addMismatch(st, NewMismatch("spacing", prop,
                            Px(mismatch.expected), Px(value),
                            element, selector, NoComponent,
                            Dev(mismatch.deviation, 1),
                            getSpacingSeverity(Dev(mismatch.deviation, 1))))
     ELSE st

\* for (const prop of paddingProps) / marginProps, from property k on
RECURSIVE SpacingProps(_, _, _, _, _, _)
SpacingProps(st, element, selector, spacingValues, props, k) ==
  IF k > Len(props) THEN st
  ELSE CHOOSE after \in
         {SpacingProps(s, element, selector, spacingValues, props, k + 1) :
            s \in {SpacingCheck(st, element, selector, spacingValues, props[k])}} : TRUE

paddingProps == <<"paddingTop", "paddingRight", "paddingBottom", "paddingLeft">>
marginProps == <<"marginTop", "marginRight", "marginBottom", "marginLeft">>

\* "Check border radius"
BorderRadiusCheck(st, element, selector, spacingValues) ==
  LET value == ParseFloatOr(element.computedStyles.borderRadius, 0)
      mismatch == findSpacingMismatch(value, spacingValues)
  IN IF value > 0 /\ mismatch.found
        /\ mismatch.deviation > THRESHOLDS.borderRadius.pixels
     THEN addMismatch(st, NewMismatch("border", "borderRadius",
                            Px(mismatch.expected), Px(value),
                            element, selector, NoComponent,
                            Dev(mismatch.deviation, 1),
                            getBorderRadiusSeverity(Dev(mismatch.deviation, 1))))
     ELSE st

RECURSIVE SpacingElement(_, _, _, _)
RECURSIVE SpacingChildren(_, _, _, _, _)
\* processElement of compareSpacing
SpacingElement(st, element, path, spacingValues) ==
  LET selector == buildSelector(element, path)
      styles == element.computedStyles
      s1 == SpacingProps(st, element, selector, spacingValues, paddingProps, 1)
      s2 == SpacingProps(s1, element, selector, spacingValues, marginProps, 1)
      s3 == IF Truthy(styles.gap)
            THEN SpacingCheck(s2, element, selector, spacingValues, "gap")
            ELSE s2
      s4 == IF Truthy(styles.borderRadius)
            THEN BorderRadiusCheck(s3, element, selector, spacingValues)
            ELSE s3
  IN CHOOSE after \in
       {SpacingChildren(s, element.children, 1, selector, spacingValues) :
          s \in {s4}} : TRUE

SpacingChildren(st, children, k, prefix, spacingValues) ==
  IF k > Len(children) THEN st
  ELSE CHOOSE after \in
         {SpacingChildren(s, children, k + 1, prefix, spacingValues) :
            s \in {SpacingElement(st, children[k], prefix \o NthChild(k),
                                  spacingValues)}} : TRUE

compareSpacing(st, domTree, figmaSpacing) ==
  IF Len(figmaSpacing) = 0 THEN st
  ELSE LET spacingValues == [i \in 1..Len(figmaSpacing) |-> figmaSpacing[i].value]
       IN SpacingChildren(st, domTree, 1, <<"body">>, spacingValues)

(***************************************************************************)
(* compareComponents / findMatchingElement / compareElementStyles          *)
(***************************************************************************)
NotFound == [found |-> FALSE, element |-> <<>>]

RECURSIVE findInTree(_, _, _)
\* findInTree(elements) of findMatchingElement, from element k on
findInTree(elements, k, componentName) ==
  IF k > Len(elements) THEN NotFound
  ELSE LET element == elements[k]
           elementId == toLowerCase(element.id)
           elementClass == toLowerCase(element.className)
       IN IF includes(elementId, componentName) \/ includes(elementClass, componentName)
          THEN [found |-> TRUE, element |-> element]
          ELSE LET found == findInTree(element.children, 1, componentName) IN
               IF found.found THEN found
               ELSE findInTree(elements, k + 1, componentName)

\* the search with the component name as it is written
findMatchingElementAsWritten(domTree, figmaComponent) ==
  findInTree(domTree, 1, figmaComponent.name)

findMatchingElement(domTree, figmaComponent) ==
  findInTree(domTree, 1, toLowerCase(figmaComponent.name))

\* the categories without the test for border properties
getCategoryForPropertyNoBorder(property) ==
  IF property \in {"color", "backgroundColor"} THEN "color"
  ELSE IF property \in {"fontSize", "fontFamily", "fontWeight", "lineHeight",
                        "letterSpacing"} THEN "typography"
  ELSE IF property \in {"margin", "padding", "gap", "marginTop", "marginRight",
                        "marginBottom", "marginLeft", "paddingTop", "paddingRight",
                        "paddingBottom", "paddingLeft"} THEN "spacing"
  ELSE IF property \in {"width", "height"} THEN "size"
  ELSE IF property \in {"textAlign", "justifyContent", "alignItems"} THEN "alignment"
  ELSE "layout"

\* the property names the engine is called with that start with 'margin' or
\* 'padding' are enumerated (property.startsWith)
getCategoryForProperty(property) ==
  IF property \in {"color", "backgroundColor"} THEN "color"
  ELSE IF property \in {"fontSize", "fontFamily", "fontWeight", "lineHeight",
                        "letterSpacing"} THEN "typography"
  ELSE IF property \in {"margin", "padding", "gap", "marginTop", "marginRight",
                        "marginBottom", "marginLeft", "paddingTop", "paddingRight",
                        "paddingBottom", "paddingLeft"} THEN "spacing"
  ELSE IF property \in {"borderRadius", "borderWidth", "borderColor"} THEN "border"
  ELSE IF property \in {"width", "height"} THEN "size"
  ELSE IF property \in {"textAlign", "justifyContent", "alignItems"} THEN "alignment"
  ELSE "layout"

styleProps == <<"fontSize", "fontWeight", "lineHeight", "padding", "margin", "borderRadius">>

\* for (const prop of styleProps), from property k on
RECURSIVE ElementStylesLoop(_, _, _, _, _)
ElementStylesLoop(st, element, figmaComponent, selector, k) ==
  IF k > Len(styleProps) THEN st
  ELSE LET prop == styleProps[k]
           expectedStyle == figmaComponent.styles[prop]
           actualStyle == element.computedStyles[prop]
           expected == ParseFloatOr(expectedStyle, 0)
           actual == ParseFloatOr(actualStyle, 0)
           s1 == IF Truthy(expectedStyle) /\ Truthy(actualStyle)
                    /\ Abs(expected - actual) > THRESHOLDS.spacing.pixels
                 THEN addMismatch(st, NewMismatch(getCategoryForProperty(prop), prop,
                                        expectedStyle, actualStyle,
                                        element, selector, figmaComponent.name,
                                        Dev(Abs(expected - actual), 1), "major"))
                 ELSE st
       IN CHOOSE after \in
            {ElementStylesLoop(s, element, figmaComponent, selector, k + 1) :
               s \in {s1}} : TRUE

\* compareElementStyles without figmaComponent: figmaComponent.name in the mismatch
compareElementStylesUntagged(st, element, figmaComponent) ==
  ElementStylesLoop(st, element, [figmaComponent EXCEPT !.name = NoComponent],
                    buildSelector(element, <<>>), 1)

compareElementStyles(st, element, figmaComponent) ==
  ElementStylesLoop(st, element, figmaComponent, buildSelector(element, <<>>), 1)

\* for (const figmaComponent of figmaComponents), from component k on
RECURSIVE compareComponentsLoop(_, _, _, _)
compareComponentsLoop(st, domTree, figmaComponents, k) ==
  IF k > Len(figmaComponents) THEN st
  ELSE LET figmaComponent == figmaComponents[k]
           matchingElement == findMatchingElement(domTree, figmaComponent)
           s1 == IF matchingElement.found
                 THEN compareElementStyles(st, matchingElement.element, figmaComponent)
                 ELSE st
       IN CHOOSE after \in
            {compareComponentsLoop(s, domTree, figmaComponents, k + 1) :
               s \in {s1}} : TRUE

compareComponents(st, domTree, figmaComponents) ==
  compareComponentsLoop(st, domTree, figmaComponents, 1)

(***************************************************************************)
(* Scores and summary.                                                     *)
(***************************************************************************)
categories == <<"color", "typography", "spacing", "layout", "border", "alignment", "size">>

\* the switch on mismatch.severity
Deduction(severity) ==
  CASE severity = "critical" -> 15
    [] severity = "major" -> 10
    [] severity = "minor" -> 5
    [] severity = "info" -> 2
    [] OTHER -> 0

\* for (const mismatch of categoryMismatches) deduction += ...
RECURSIVE DeductionLoop(_, _, _)
DeductionLoop(categoryMismatches, k, deduction) ==
  IF k > Len(categoryMismatches) THEN deduction
  ELSE DeductionLoop(categoryMismatches, k + 1,
                     deduction + Deduction(categoryMismatches[k].severity))

\* CategoryScore without the floor at 0
CategoryScoreNoFloor(ms, category) ==
  LET InCategory(m) == m.category = category
      categoryMismatches == SelectSeq(ms, InCategory)
  IN IF Len(categoryMismatches) = 0 THEN 100
     ELSE 100 - DeductionLoop(categoryMismatches, 1, 0)

CategoryScore(ms, category) ==
  LET InCategory(m) == m.category = category
      categoryMismatches == SelectSeq(ms, InCategory)
  IN IF Len(categoryMismatches) = 0 THEN 100
     ELSE Max(0, 100 - DeductionLoop(categoryMismatches, 1, 0))

calculateCategoryScores(ms) ==
  [category \in {categories[i] : i \in 1..Len(categories)} |-> CategoryScore(ms, category)]

\* weights with spacing given the weight of typography
weightsSpacing20 ==
  [color |-> 20, typography |-> 20, spacing |-> 20, layout |-> 15,
   border |-> 10, alignment |-> 10, size |-> 10]

\* the weights of calculateOverallScore, in hundredths
weights ==
  [color |-> 20, typography |-> 20, spacing |-> 15, layout |-> 15,
   border |-> 10, alignment |-> 10, size |-> 10]

\* weights[category] || 0.1, in hundredths
WeightOf(category) ==
  IF category \in DOMAIN weights /\ weights[category] # 0
  THEN weights[category] ELSE 10

\* Object.entries(categoryScores), in insertion order
Entries(categoryScores) ==
  LET Present(c) == c \in DOMAIN categoryScores IN SelectSeq(categories, Present)

RECURSIVE OverallLoop(_, _, _, _, _)
OverallLoop(categoryScores, entries, k, weightedSum, totalWeight) ==
  IF k > Len(entries)
  THEN [weightedSum |-> weightedSum, totalWeight |-> totalWeight]
  ELSE LET weight == WeightOf(entries[k]) IN
       OverallLoop(categoryScores, entries, k + 1,
                   weightedSum + categoryScores[entries[k]] * weight,
                   totalWeight + weight)

\* the quotient cut off instead of rounded
MathFloorDiv(a, b) == a \div b

\* Math.round(a / b) for a >= 0, b > 0: halves round up
MathRoundDiv(a, b) == (2 * a + b) \div (2 * b)

calculateOverallScore(categoryScores) ==
  LET r == OverallLoop(categoryScores, Entries(categoryScores), 1, 0, 0)
  IN MathRoundDiv(r.weightedSum, r.totalWeight)

CountSeverity(ms, severity) ==
  LET Is(m) == m.severity = severity IN Len(SelectSeq(ms, Is))

calculateSummary(ms) ==
  [total |-> Len(ms),
   critical |-> CountSeverity(ms, "critical"),
   major |-> CountSeverity(ms, "major"),
   minor |-> CountSeverity(ms, "minor"),
   info |-> CountSeverity(ms, "info")]

(***************************************************************************)
(* ComparisonEngine.compare                                                *)
(***************************************************************************)
\* the reset that forgets the list but keeps counting
ResetEngineKeepCounter(st) ==
  [mismatches |-> <<>>, mismatchIdCounter |-> st.mismatchIdCounter]

\* this.mismatches = []; this.mismatchIdCounter = 0;
ResetEngine(st) ==
  [mismatches |-> <<>>, mismatchIdCounter |-> 0]

\* the engine after the reset and the four comparison passes of compare()
ComparePasses(web, figma) ==
  LET designTokens == figma.designTokens
      components == figma.components
      domTree == web.domTree
      s0 == ResetEngine([mismatches |-> mismatches,
                         mismatchIdCounter |-> mismatchIdCounter])
      Components(s3) ==
        IF Len(components) > 0 /\ Len(domTree) > 0
        THEN compareComponents(s3, domTree, components)
        ELSE s3
      Spacing(s2) ==
        CHOOSE after \in
          {Components(s3) : s3 \in {compareSpacing(s2, domTree, designTokens.spacing)}} : TRUE
      Typography(s1) ==
        CHOOSE after \in
          {Spacing(s2) :
             s2 \in {compareTypography(s1, domTree, designTokens.typography)}} : TRUE
  IN CHOOSE after \in
       {Typography(s1) : s1 \in {compareColors(s0, domTree, designTokens.colors)}} : TRUE

ComparisonResultOf(ms) ==
  LET categoryScores == calculateCategoryScores(ms) IN
  [overallScore |-> calculateOverallScore(categoryScores),
   categoryScores |-> categoryScores,
   mismatches |-> ms,
   summary |-> calculateSummary(ms)]

NoResult ==
  [overallScore |-> -1,
   categoryScores |-> [category \in {} |-> 0],
   mismatches |-> <<>>,
   summary |-> [total |-> 0, critical |-> 0, major |-> 0, minor |-> 0, info |-> 0]]

\* the old array emptied and used again
SameMismatchArray(heap, ref) ==
  [arrays |-> [heap EXCEPT ![ref] = <<>>], ref |-> ref]

\* `this.mismatches = []` on the heap: a new array object, which the field
\* then names; the array it named before is left as it is
NewMismatchArray(heap, ref) ==
  [arrays |-> Append(heap, <<>>), ref |-> Len(heap) + 1]

\* the body of compare(web, figma) on the engine as it stands: the engine
\* fields, the heap and the result afterwards.  The result's mismatches are
\* the array this.mismatches names, which the pushes of the passes filled.
CompareBody(web, figma) ==
  \E st \in {ComparePasses(web, figma)}, h \in {NewMismatchArray(arrays, mismatchesRef)} :
     /\ mismatches' = st.mismatches
     /\ mismatchIdCounter' = st.mismatchIdCounter
     /\ arrays' = [h.arrays EXCEPT ![h.ref] = st.mismatches]
     /\ mismatchesRef' = h.ref
     /\ result' = ComparisonResultOf(st.mismatches)

\* compare() on a new engine
Compare ==
  /\ pc = "idle"
  /\ CompareBody(webAnalysis, figmaAnalysis)
  /\ pc' = "done"
  /\ UNCHANGED <<webAnalysis, figmaAnalysis, returned>>
  /\ UNCHANGED diffVars
  /\ UNCHANGED mergeVars
  /\ UNCHANGED stepVars

(***************************************************************************)
(* Inputs of compare(): style trees, design tokens and components.         *)
(***************************************************************************)
SeqsUpTo(S, n) == UNION {[1..k -> S] : k \in 0..n}

\* the computed styles of the unit tests' elements with nothing to report
DefaultStyles ==
  [color |-> Col(0), backgroundColor |-> Rgba0,
   borderColor |-> BadColor, borderWidth |-> Px(0),
   fontSize |-> Px(16), fontWeight |-> Num(400), lineHeight |-> Px(24),
   paddingTop |-> Px(0), paddingRight |-> Px(0),
   paddingBottom |-> Px(0), paddingLeft |-> Px(0),
   marginTop |-> Px(0), marginRight |-> Px(0),
   marginBottom |-> Px(0), marginLeft |-> Px(0),
   gap |-> Absent, borderRadius |-> Px(0),
   padding |-> Px(0), margin |-> Px(0)]

Element(id, className, styles, children) ==
  [tagName |-> "div", id |-> id, className |-> className,
   computedStyles |-> styles, children |-> children]

ColorToken(c) == [name |-> "color", hex |-> c]
TypoToken(size, weight, lh) ==
  [fontFamily |-> "Arial", fontSize |-> size, fontWeight |-> weight, lineHeight |-> lh]
SpacingToken(v) == [name |-> "spacing", value |-> v]

Tokens(colors, typography, spacing) ==
  [colors |-> colors, typography |-> typography, spacing |-> spacing]

Input(domTree, designTokens, components) ==
  [web |-> [domTree |-> domTree],
   figma |-> [designTokens |-> designTokens, components |-> components]]

\* the token collections of the unit tests
TestTypography == <<TypoToken(32, 700, Num(40))>>
TestSpacing == <<SpacingToken(8), SpacingToken(16), SpacingToken(24)>>

\* spacing tokens as the Figma analyzer yields them: positive, distinct, ascending
AscendingSpacing ==
  {s \in SeqsUpTo({8, 16, 24}, MaxTokens) :
     \A i \in 1..(Len(s) - 1) : s[i] < s[i + 1]}

SpacingCollections ==
  {[i \in 1..Len(s) |-> SpacingToken(s[i])] : s \in AscendingSpacing} \cup {TestSpacing}

ColorCollections ==
  {[i \in 1..Len(s) |-> ColorToken(s[i])] :
     s \in SeqsUpTo({Col(0), Col(10), BadColor}, MaxTokens)}

TypographyCollections ==
  SeqsUpTo({TypoToken(16, 400, Num(24)), TypoToken(32, 700, Num(40)),
            TypoToken(32, 700, Num(32)), TypoToken(16, 400, Normal)}, MaxTokens)

\* one element, the colour properties and the colour tokens vary
ColorInputs ==
  {Input(<<Element(<<"x">>, <<>>,
                   [DefaultStyles EXCEPT !.color = c, !.backgroundColor = bg,
                                         !.borderColor = bc, !.borderWidth = bw],
                   <<>>)>>,
         Tokens(colors, others.typography, others.spacing), <<>>) :
     c \in {Col(0), Col(4), Col(12), Col(30), BadColor, Absent},
     bg \in {Rgba0, Col(6), Col(45)},
     bc \in {BadColor, Col(17)},
     bw \in {Px(0), Px(1)},
     colors \in ColorCollections,
     others \in {Tokens(<<>>, <<>>, <<>>), Tokens(<<>>, TestTypography, TestSpacing)}}

\* one element, the typography properties and the typography tokens vary
TypographyInputs ==
  {Input(<<Element(<<>>, <<"h">>,
                   [DefaultStyles EXCEPT !.fontSize = fs, !.fontWeight = fw,
                                         !.lineHeight = lh],
                   <<>>)>>,
         Tokens(others.colors, typography, others.spacing), <<>>) :
     fs \in {Absent, Px(14), Px(16), Px(24)},
     fw \in {Absent, Num(400), Num(700)},
     lh \in {Absent, Normal, Px(24), Px(32)},
     typography \in TypographyCollections,
     others \in {Tokens(<<>>, <<>>, <<>>), Tokens(<<ColorToken(Col(0))>>, <<>>, TestSpacing)}}

\* one element, the spacing properties and the spacing tokens vary
SpacingInputs ==
  {Input(<<Element(<<>>, <<>>,
                   [DefaultStyles EXCEPT !.paddingTop = Px(pt), !.paddingRight = Px(pr),
                                         !.paddingBottom = Px(pb), !.paddingLeft = Px(pb),
                                         !.padding = Px(pt),
                                         !.marginTop = Px(m), !.marginRight = Px(m),
                                         !.marginBottom = Px(m), !.marginLeft = Px(m),
                                         !.margin = Px(m),
                                         !.gap = gap, !.borderRadius = br],
                   <<>>)>>,
         Tokens(<<>>, <<>>, spacing), <<>>) :
     pt \in {0, 8, 12, 13, 40}, pr \in {0, 12, 40}, pb \in {0, 12, 40},
     m \in {0, 12, 40},
     gap \in {Absent, Px(12), Px(21)},
     br \in {Absent, Px(8), Px(11), Px(15)},
     spacing \in SpacingCollections}

\* trees of several elements, with design components
PoolStyles ==
  {[DefaultStyles EXCEPT !.fontSize = Px(24), !.lineHeight = Px(32),
                         !.padding = Px(12), !.paddingTop = Px(12),
                         !.paddingRight = Px(12), !.paddingBottom = Px(12),
                         !.paddingLeft = Px(12), !.borderRadius = Px(8)],
   [DefaultStyles EXCEPT !.color = Col(30), !.margin = Px(40), !.marginTop = Px(40)]}

LeafPool ==
  {Element(<<>>, <<"b", " ", "a">>, s, <<>>) : s \in PoolStyles}
  \cup {Element(<<"A", "b">>, <<>>, DefaultStyles, <<>>)}

NodePool ==
  LeafPool \cup
  {Element(<<>>, <<>>, DefaultStyles, <<leaf>>) : leaf \in LeafPool}

Component(name, styles) == [name |-> name, styles |-> styles]

NoStyles == [p \in {styleProps[i] : i \in 1..Len(styleProps)} |-> Absent]

ComponentPool ==
  {Component(<<"A">>, [NoStyles EXCEPT !.fontSize = Px(32), !.padding = Px(8)]),
   Component(<<"a", "b">>, [NoStyles EXCEPT !.fontSize = Px(18), !.margin = Px(8),
                                            !.borderRadius = Px(16)]),
   Component(<<"c">>, [NoStyles EXCEPT !.fontSize = Px(32)])}

TreeInputs ==
  {Input(domTree, designTokens, components) :
     domTree \in SeqsUpTo(NodePool, MaxSiblings),
     designTokens \in {Tokens(<<>>, <<>>, <<>>),
                       Tokens(<<ColorToken(Col(0))>>, <<>>, <<>>),
                       Tokens(<<ColorToken(Col(0))>>, TestTypography, TestSpacing)},
     components \in SeqsUpTo(ComponentPool, 1)}

\* one element half-way between two tokens of each collection, the tokens
\* in either order (spacing ascending, as the analyzer yields it)
TieInputs ==
  {Input(<<Element(<<>>, <<>>,
                   [DefaultStyles EXCEPT !.color = Col(20), !.fontSize = Px(24),
                                         !.fontWeight = Num(550),
                                         !.paddingTop = Px(16), !.borderRadius = br],
                   <<>>)>>,
         Tokens(colors, typography, <<SpacingToken(8), SpacingToken(24)>>), <<>>) :
     br \in {Px(0), Px(16)},
     colors \in {<<ColorToken(Col(10)), ColorToken(Col(30))>>,
                 <<ColorToken(Col(30)), ColorToken(Col(10))>>,
                 <<ColorToken(BadColor), ColorToken(Col(30)), ColorToken(Col(10))>>},
     typography \in {<<TypoToken(16, 400, Num(24)), TypoToken(32, 700, Num(40))>>,
                     <<TypoToken(32, 700, Num(40)), TypoToken(16, 400, Num(24))>>}}

Inputs ==
  ColorInputs \cup TypographyInputs \cup SpacingInputs \cup TreeInputs \cup TieInputs

(***************************************************************************)
(* Idle values of the visual diff and of the region merge.                 *)
(***************************************************************************)
NoImage == [width |-> 0, height |-> 0, data |-> <<>>]

NoDiffResult ==
  [diffImage |-> NoImage, matchPercentage |-> 0, mismatchedPixels |-> 0,
   totalPixels |-> 0, diffAreas |-> <<>>]

NoError == [name |-> "none", message |-> "none"]

DiffIdle ==
  /\ image1 = NoImage
  /\ image2 = NoImage
  /\ diffResult = NoDiffResult
  /\ diffError = NoError
  /\ dpc = "off"

NoFill == [stack |-> <<>>, visited |-> {},
           box |-> [minX |-> 0, maxX |-> 0, minY |-> 0, maxY |-> 0, pixelCount |-> 0],
           broke |-> FALSE]

FloodIdle ==
  /\ floodInput = [image1 |-> NoImage, image2 |-> NoImage,
                   mismatchedPixels |-> 0, cap |-> 0]
  /\ floodDiff = NoImage
  /\ scanKey = 0
  /\ scanVisited = {}
  /\ scanAreas = <<>>
  /\ fill = NoFill
  /\ fills = <<>>
  /\ foundAreas = <<>>
  /\ fpc = "off"

\* no mergeNearbyRegions() call is run step by step
NoMerging ==
  [regions |-> <<>>, i |-> 0, j |-> 0,
   current |-> [x |-> 0, y |-> 0, width |-> 0, height |-> 0], used |-> {},
   changed |-> FALSE, merged |-> <<>>, parts |-> {}, groups |-> <<>>, pc |-> "off"]

MergingIdle == merging = NoMerging

\* no overlapping compare() calls are run
OverlapIdle ==
  /\ diffCalls = <<>>
  /\ lastVisited = {}

\* no validate() call is run
ValidateIdle ==
  /\ validations = <<>>
  /\ webAnalyzer = [browser |-> "null", context |-> "null", page |-> "null"]
  /\ closedObjects = [browsers |-> {}, contexts |-> {}, pages |-> {}]

StepIdle == FloodIdle /\ MergingIdle /\ OverlapIdle /\ ValidateIdle

MergeIdle ==
  /\ regions = <<>>
  /\ merged = <<>>
  /\ remerged = <<>>
  /\ mpc = "off"

\* `private mismatches: StyleMismatch[] = []`: the constructor's array is
\* the first one; no result has been handed out
NewEngineHeap ==
  /\ arrays = << <<>> >>
  /\ mismatchesRef = 1
  /\ returned = <<>>

CompareIdle ==
  /\ webAnalysis = [domTree |-> <<>>]
  /\ figmaAnalysis = [designTokens |-> Tokens(<<>>, <<>>, <<>>), components |-> <<>>]
  /\ mismatches = <<>>
  /\ mismatchIdCounter = 0
  /\ result = NoResult
  /\ pc = "off"
  /\ NewEngineHeap

(***************************************************************************)
(* Specification of the comparison engine: one compare() call on a new     *)
(* engine, for every input drawn.                                          *)
(***************************************************************************)
Init ==
  /\ \E in \in Inputs :
       /\ webAnalysis = in.web
       /\ figmaAnalysis = in.figma
  /\ mismatches = <<>>
  /\ mismatchIdCounter = 0
  /\ result = NoResult
  /\ pc = "idle"
  /\ NewEngineHeap
  /\ DiffIdle
  /\ MergeIdle
  /\ StepIdle

Next == Compare

Spec == Init /\ [][Next]_vars

(***************************************************************************)
(* Specification of an engine that is used again: compare() is called up   *)
(* to MaxCalls times on the same ComparisonEngine, as the callers of the   *)
(* exported singleton do, each caller keeping the result it was given.     *)
(***************************************************************************)
MaxCalls == 3       \* compare() calls on one engine

\* an empty tree or one leaf, with or without a design component
ReuseInputs ==
  {in \in TreeInputs :
     /\ Len(in.web.domTree) <= 1
     /\ \A i \in 1..Len(in.web.domTree) : in.web.domTree[i].children = <<>>
     /\ in.figma.designTokens.spacing # <<>>
     /\ \A i \in 1..Len(in.figma.components) : in.figma.components[i].name = <<"A">>}

InitReuse ==
  /\ \E in \in ReuseInputs :
       /\ webAnalysis = in.web
       /\ figmaAnalysis = in.figma
  /\ mismatches = <<>>
  /\ mismatchIdCounter = 0
  /\ result = NoResult
  /\ pc = "idle"
  /\ NewEngineHeap
  /\ DiffIdle
  /\ MergeIdle
  /\ StepIdle

\* compare() called again on the engine, with new arguments; the caller of
\* the call before holds the result it was given, whose mismatches are the
\* array this.mismatches named when that call returned
CompareAgain ==
  /\ pc = "done"
  /\ Len(returned) + 1 < MaxCalls
  /\ \E in \in ReuseInputs :
       /\ webAnalysis' = in.web
       /\ figmaAnalysis' = in.figma
       /\ CompareBody(in.web, in.figma)
  /\ returned' = Append(returned, [ref |-> mismatchesRef, atReturn |-> result])
  /\ pc' = "done"
  /\ UNCHANGED diffVars
  /\ UNCHANGED mergeVars
  /\ UNCHANGED stepVars

NextReuse == Compare \/ CompareAgain

SpecReuse == InitReuse /\ [][NextReuse]_vars

(***************************************************************************)
(* Vocabulary of the properties of compare().                              *)
(***************************************************************************)
RECURSIVE AllElements(_)
\* every element of a list of trees
AllElements(elements) ==
  IF elements = <<>> THEN {}
  ELSE {Head(elements)} \cup AllElements(Head(elements).children)
       \cup AllElements(Tail(elements))

Range(s) == {s[i] : i \in 1..Len(s)}

DesignTokens == figmaAnalysis.designTokens
DomElements == AllElements(webAnalysis.domTree)
Done == pc = "done"
ResultMismatches == Range(result.mismatches)

SevenCategories == {"color", "typography", "spacing", "layout", "border", "alignment", "size"}

\* some token of the collection is within the tolerance of the value
ColorTokenWithin(c, tol) ==
  \E t \in Range(DesignTokens.colors) : Parseable(t.hex) /\ Abs(c.n - t.hex.n) <= tol
FontSizeTokenWithin(v, tol) ==
  \E t \in Range(DesignTokens.typography) : Abs(v - t.fontSize) <= tol
FontWeightTokenWithin(v, tol) ==
  \E t \in Range(DesignTokens.typography) : Abs(v - t.fontWeight) <= tol
SpacingTokenWithin(v, tol) ==
  \E t \in Range(DesignTokens.spacing) : Abs(v - t.value) <= tol
\* some typography token has a line-height ratio within 0.1 of lh / fs
LineHeightTokenWithin(lh, fs) ==
  \E t \in Range(DesignTokens.typography) :
     LET e2 == IF t.lineHeight.kind = "num" THEN 2 * t.lineHeight.n ELSE 3 * fs
     IN 10 * Abs(2 * lh * t.fontSize - e2 * fs) <= 2 * fs * t.fontSize

\* the properties compare() checks on an element, each with a token of its
\* collection within the property's own tolerance
ElementWithinTolerance(e) ==
  LET s == e.computedStyles IN
  /\ DesignTokens.colors # <<>> =>
       /\ Parseable(s.color) => ColorTokenWithin(s.color, 5)
       /\ Parseable(s.backgroundColor) => ColorTokenWithin(s.backgroundColor, 5)
       /\ (Parseable(s.borderColor) /\ s.borderWidth # Px(0))
             => ColorTokenWithin(s.borderColor, 5)
  /\ DesignTokens.typography # <<>> =>
       /\ Truthy(s.fontSize) => FontSizeTokenWithin(s.fontSize.n, 2)
       /\ Truthy(s.fontWeight) => FontWeightTokenWithin(s.fontWeight.n, 0)
       /\ (Truthy(s.lineHeight) /\ s.lineHeight # Normal)
             => LineHeightTokenWithin(s.lineHeight.n,
                                      IF Truthy(s.fontSize) /\ s.fontSize.n # 0
                                      THEN s.fontSize.n ELSE 16)
  /\ DesignTokens.spacing # <<>> =>
       /\ \A p \in Range(paddingProps) \cup Range(marginProps) \cup {"gap"} :
             (Truthy(s[p]) /\ s[p].n > 0) => SpacingTokenWithin(s[p].n, 4)
       /\ (Truthy(s.borderRadius) /\ s.borderRadius.n > 0)
             => SpacingTokenWithin(s.borderRadius.n, 2)

(***************************************************************************)
(* C1.  Whenever every checked property of every element has a design      *)
(* token within that property's tolerance, compare returns overallScore    *)
(* 100 and no mismatch (stated for calls without design components).       *)
(* The code raises a lineHeight mismatch as soon as any one typography     *)
(* token is more than 0.1 away, also when another token matches exactly.   *)
(***************************************************************************)
C1_WithinToleranceScores100 ==
  (Done /\ figmaAnalysis.components = <<>>
        /\ \A e \in DomElements : ElementWithinTolerance(e))
    => (result.overallScore = 100 /\ result.mismatches = <<>>)

(***************************************************************************)
(* C5.  Each of the seven categories scores                                *)
(* max(0, 100 - (15 critical + 10 major + 5 minor + 2 info)) counted over  *)
(* the mismatches of the category; every score is within 0..100.           *)
(***************************************************************************)
CountOf(category, severity) ==
  Cardinality({i \in 1..Len(result.mismatches) :
                 /\ result.mismatches[i].category = category
                 /\ result.mismatches[i].severity = severity})

PenaltyOf(category) ==
  15 * CountOf(category, "critical") + 10 * CountOf(category, "major")
  + 5 * CountOf(category, "minor") + 2 * CountOf(category, "info")

C5_CategoryScores ==
  Done =>
    /\ DOMAIN result.categoryScores = SevenCategories
    /\ \A c \in SevenCategories :
         /\ result.categoryScores[c] = Max(0, 100 - PenaltyOf(c))
         /\ result.categoryScores[c] \in 0..100
         /\ (\A m \in ResultMismatches : m.category # c)
               => result.categoryScores[c] = 100

\* a category floored at 0 next to one with a partial score
C5_Witness ==
  /\ Done
  /\ \E c \in SevenCategories : PenaltyOf(c) > 100 /\ result.categoryScores[c] = 0
  /\ \E c \in SevenCategories : result.categoryScores[c] \in 1..99

(***************************************************************************)
(* C6.  overallScore is the weighted sum of the seven category scores      *)
(* (color 0.20, typography 0.20, spacing 0.15, layout 0.15, border 0.10,   *)
(* alignment 0.10, size 0.10; the weights total 1.0 and every category of  *)
(* the score map has its own weight) rounded to the nearest integer, and   *)
(* lies within 0..100.                                                     *)
(***************************************************************************)
WeightedSum100 ==
  LET s == result.categoryScores IN
  20 * s.color + 20 * s.typography + 15 * s.spacing + 15 * s.layout
  + 10 * s.border + 10 * s.alignment + 10 * s.size

C6_OverallScore ==
  Done =>
    /\ DOMAIN result.categoryScores = SevenCategories
    /\ 100 * result.overallScore >= WeightedSum100 - 50
    /\ 100 * result.overallScore <= WeightedSum100 + 50
    /\ result.overallScore \in 0..100

\* a weighted sum that is not an integer, so that rounding acts
C6_Witness ==
  /\ Done
  /\ WeightedSum100 % 100 # 0
  /\ result.overallScore < 100

(***************************************************************************)
(* C7.  The unit test "should detect spacing mismatches": an element with  *)
(* 12px padding on all four sides against the spacing tokens 8, 16 and 24  *)
(* yields at least one mismatch of category spacing.  The code finds 8     *)
(* within the 4px tolerance and reports nothing.                           *)
(***************************************************************************)
C7_PaddingMismatchDetected ==
  (/\ Done
   /\ DesignTokens.spacing = TestSpacing
   /\ \E e \in DomElements :
        \A p \in Range(paddingProps) : e.computedStyles[p] = Px(12))
    => \E m \in ResultMismatches : m.category = "spacing"

(***************************************************************************)
(* C8.  As claimed: an empty token collection means no mismatch of that    *)
(* category and a category score of 100, whatever the components contain.  *)
(***************************************************************************)
CollectionOf(category) ==
  CASE category = "color" -> DesignTokens.colors
    [] category = "typography" -> DesignTokens.typography
    [] category = "spacing" -> DesignTokens.spacing

C8_EmptyCollectionNoMismatch ==
  Done =>
    \A c \in {"color", "typography", "spacing"} :
       CollectionOf(c) = <<>> =>
         /\ \A m \in ResultMismatches : m.category # c
         /\ result.categoryScores[c] = 100

(***************************************************************************)
(* C8 as amended.  With an empty token collection the token traversal      *)
(* raises nothing in that category: its only mismatches are those of the   *)
(* component comparison (they carry the component's name), which can be    *)
(* typography or spacing but never colour.  So the category scores 100     *)
(* when no component is supplied, and the colour category always does.     *)
(***************************************************************************)
C8_EmptyCollectionOnlyComponents ==
  Done =>
    \A c \in {"color", "typography", "spacing"} :
       CollectionOf(c) = <<>> =>
         /\ \A m \in ResultMismatches :
               m.category = c => m.figmaComponent # NoComponent
         /\ (c = "color" \/ figmaAnalysis.components = <<>>) =>
               /\ \A m \in ResultMismatches : m.category # c
               /\ result.categoryScores[c] = 100

\* an empty typography collection, elements with font sizes, and a
\* typography mismatch that the component comparison raised
C8_Witness ==
  /\ Done
  /\ DesignTokens.typography = <<>>
  /\ DesignTokens.colors # <<>>
  /\ \E m \in ResultMismatches :
        m.category = "typography" /\ m.figmaComponent # NoComponent
  /\ result.categoryScores.typography < 100

(***************************************************************************)
(* C9.  An unparseable colour, the element's or a token's, never yields a  *)
(* mismatch: every colour mismatch reports a parseable actual colour, a    *)
(* parseable token as the expected value and a finite deviation.  When     *)
(* every token of a non-empty collection is unparseable the code reports   *)
(* the first token with an infinite deviation.                             *)
(***************************************************************************)
ColorProps == {"color", "backgroundColor", "borderColor"}

C9_UnparseableColorNoMismatch ==
  Done =>
    \A m \in ResultMismatches :
       m.property \in ColorProps =>
         /\ Parseable(m.actualValue)
         /\ Parseable(m.expectedValue)
         /\ m.deviation.num < Infinity

(***************************************************************************)
(* C10.  A numeric property that is checked raises a mismatch exactly when *)
(* its distance to the nearest token exceeds the tolerance of its own      *)
(* category: 2px font size, 4px spacing, 2px border radius (stated for a   *)
(* tree of one element).  The code applies the 4px spacing tolerance to    *)
(* the border radius before its own 2px.                                   *)
(***************************************************************************)
Raised(prop) == \E m \in ResultMismatches :
                   m.property = prop /\ m.figmaComponent = NoComponent

C10_NumericTolerance ==
  (Done /\ Len(webAnalysis.domTree) = 1 /\ webAnalysis.domTree[1].children = <<>>) =>
    LET s == webAnalysis.domTree[1].computedStyles IN
    /\ (DesignTokens.typography # <<>> /\ Truthy(s.fontSize)) =>
          (Raised("fontSize") <=> ~FontSizeTokenWithin(s.fontSize.n, 2))
    /\ DesignTokens.spacing # <<>> =>
          /\ \A p \in Range(paddingProps) \cup Range(marginProps) \cup {"gap"} :
                (Truthy(s[p]) /\ s[p].n > 0) =>
                   (Raised(p) <=> ~SpacingTokenWithin(s[p].n, 4))
          /\ (Truthy(s.borderRadius) /\ s.borderRadius.n > 0) =>
                (Raised("borderRadius") <=> ~SpacingTokenWithin(s.borderRadius.n, 2))

(***************************************************************************)
(* C11.  In every nearest-token search (colour, font size, font weight,    *)
(* spacing and border radius) the expected value of a mismatch is the      *)
(* value of the first token, in the order of the collection, among those   *)
(* at the least distance from the actual value; unparseable colour tokens  *)
(* are no candidates.                                                      *)
(***************************************************************************)
\* the first index of cands at the least distance dist[i]
FirstNearest(cands, dist) ==
  CHOOSE i \in cands :
    \A j \in cands : dist[i] < dist[j] \/ (dist[i] = dist[j] /\ i <= j)

ParseableTokens == {i \in 1..Len(DesignTokens.colors) : Parseable(DesignTokens.colors[i].hex)}

FirstNearestColor(c) ==
  DesignTokens.colors[
    FirstNearest(ParseableTokens,
                 [i \in ParseableTokens |-> Abs(c.n - DesignTokens.colors[i].hex.n)])].hex

FirstNearestTypography(v, property) ==
  DesignTokens.typography[
    FirstNearest(1..Len(DesignTokens.typography),
                 [i \in 1..Len(DesignTokens.typography) |->
                    Abs(v - DesignTokens.typography[i][property])])][property]

FirstNearestSpacing(v) ==
  DesignTokens.spacing[
    FirstNearest(1..Len(DesignTokens.spacing),
                 [i \in 1..Len(DesignTokens.spacing) |->
                    Abs(v - DesignTokens.spacing[i].value)])].value

SpacingSearchProps == Range(paddingProps) \cup Range(marginProps) \cup {"gap", "borderRadius"}

C11_FirstNearestWins ==
  Done =>
    \A m \in ResultMismatches :
       m.figmaComponent = NoComponent =>
         /\ (m.property \in ColorProps /\ ParseableTokens # {}) =>
               m.expectedValue = FirstNearestColor(m.actualValue)
         /\ m.property = "fontSize" =>
               m.expectedValue = Px(FirstNearestTypography(m.actualValue.n, "fontSize"))
         /\ m.property = "fontWeight" =>
               m.expectedValue = Num(FirstNearestTypography(m.actualValue.n, "fontWeight"))
         /\ m.property \in SpacingSearchProps =>
               m.expectedValue = Px(FirstNearestSpacing(m.actualValue.n))

\* two tokens of different value at the same distance from the actual
\* value, the second of the collection being the smaller one
TiedTokens(values, v, n) ==
  \E i, j \in 1..n :
     i < j /\ values[i] > values[j] /\ Abs(v - values[i]) = Abs(v - values[j])

\* a colour, a font-size, a font-weight and a spacing mismatch, each with
\* its actual value half-way between two tokens
C11_Witness ==
  /\ Done
  /\ \E m \in ResultMismatches :
        /\ m.property = "color"
        /\ ParseableTokens = 2..3
        /\ m.expectedValue = Col(30) /\ m.actualValue = Col(20)
  /\ \E m \in ResultMismatches :
        /\ m.property = "fontSize"
        /\ TiedTokens([i \in 1..2 |-> DesignTokens.typography[i].fontSize],
                      m.actualValue.n, 2)
        /\ m.expectedValue = Px(32)
  /\ \E m \in ResultMismatches :
        /\ m.property = "fontWeight"
        /\ m.expectedValue = Num(700) /\ m.actualValue = Num(550)
  /\ \E m \in ResultMismatches :
        /\ m.property = "paddingTop"
        /\ m.expectedValue = Px(8) /\ m.actualValue = Px(16)
        /\ DesignTokens.spacing[2].value = 24

(***************************************************************************)
(* C12.  For colour, font size, spacing, border radius and line height the *)
(* severity of a mismatch of the token traversal is a step function of its *)
(* deviation: minor below the major threshold of the category, major from  *)
(* the major threshold up to the critical one, critical from the critical  *)
(* threshold on; so the severity never decreases as the deviation grows.   *)
(* The line-height thresholds 0.2 and 0.3 are ratio differences; the       *)
(* mismatch reports the ratio difference times 100.                        *)
(***************************************************************************)
SeverityStep(d, major, critical) ==
  IF d.num >= critical * d.den THEN "critical"
  ELSE IF d.num >= major * d.den THEN "major"
  ELSE "minor"

\* the threshold class of a property: the record of THRESHOLDS it is judged by
ThresholdClass(property) ==
  CASE property \in ColorProps -> "color"
    [] property = "fontSize" -> "fontSize"
    [] property = "borderRadius" -> "borderRadius"
    [] property = "lineHeight" -> "lineHeight"
    [] property \in SpacingSearchProps \ {"borderRadius"} -> "spacing"
    [] OTHER -> "none"

\* thresholds in the unit of the reported deviation
MajorOf(class) ==
  IF class = "lineHeight" THEN 10 * THRESHOLDS.lineHeight.major
  ELSE THRESHOLDS[class].major
CriticalOf(class) ==
  IF class = "lineHeight" THEN 10 * THRESHOLDS.lineHeight.critical
  ELSE THRESHOLDS[class].critical

SeverityRank(severity) ==
  CASE severity = "critical" -> 3 [] severity = "major" -> 2
    [] severity = "minor" -> 1 [] OTHER -> 0

TokenMismatches == {m \in ResultMismatches : m.figmaComponent = NoComponent}

StrictlyBetween(d, lo, hi) == lo * d.den < d.num /\ d.num < hi * d.den

C13_ReadmeBands ==
  Done =>
    \A m \in TokenMismatches :
       /\ ThresholdClass(m.property) = "color" =>
            /\ StrictlyBetween(m.deviation, 20, Infinity + 1) => m.severity = "critical"
            /\ StrictlyBetween(m.deviation, 10, 20) => m.severity = "major"
            /\ StrictlyBetween(m.deviation, 5, 10) => m.severity = "minor"
       /\ ThresholdClass(m.property) = "spacing" =>
            /\ StrictlyBetween(m.deviation, 8, Infinity) => m.severity = "critical"
            /\ StrictlyBetween(m.deviation, 4, 8) => m.severity = "major"
            /\ StrictlyBetween(m.deviation, 2, 4) => m.severity = "minor"

(***************************************************************************)
(* C14.  The unit test "should detect typography mismatches": a 24px font  *)
(* size, weight 700 and a 32px line height against the one typography      *)
(* token (32, 700, line height 40) yields exactly one typography mismatch, *)
(* with expectedValue "32px", actualValue "24px" and deviation 8.  In      *)
(* general a font-size mismatch of the token traversal reports the nearest *)
(* token's size as the expected value, the element's computed font size as *)
(* the actual value and their absolute difference as the deviation.        *)
(***************************************************************************)
TypographyTestCase ==
  /\ DesignTokens.typography = TestTypography
  /\ figmaAnalysis.components = <<>>
  /\ Len(webAnalysis.domTree) = 1
  /\ webAnalysis.domTree[1].children = <<>>
  /\ webAnalysis.domTree[1].computedStyles.fontSize = Px(24)
  /\ webAnalysis.domTree[1].computedStyles.fontWeight = Num(700)
  /\ webAnalysis.domTree[1].computedStyles.lineHeight = Px(32)

TypographyIndices ==
  {i \in 1..Len(result.mismatches) : result.mismatches[i].category = "typography"}

C14_FontSizeMismatch ==
  Done =>
    /\ TypographyTestCase =>
          /\ Cardinality(TypographyIndices) = 1
          /\ \A i \in TypographyIndices :
                /\ result.mismatches[i].property = "fontSize"
                /\ result.mismatches[i].expectedValue = Px(32)
                /\ result.mismatches[i].actualValue = Px(24)
                /\ result.mismatches[i].deviation = Dev(8, 1)
    /\ \A m \in TokenMismatches :
          m.property = "fontSize" =>
            /\ \E e \in DomElements :
                  /\ e.computedStyles.fontSize = m.actualValue
                  /\ e.id = m.element.id /\ e.className = m.element.className
            /\ m.expectedValue = Px(FirstNearestTypography(m.actualValue.n, "fontSize"))
            /\ m.deviation = Dev(Abs(m.actualValue.n - m.expectedValue.n), 1)

\* the unit test's call, with its font-size mismatch
C14_Witness ==
  /\ Done
  /\ TypographyTestCase
  /\ \E m \in TokenMismatches : m.property = "fontSize" /\ m.deviation = Dev(8, 1)

(***************************************************************************)
(* C15.  Within one compare() call the mismatches are numbered             *)
(* mismatch-1 .. mismatch-n in the order they were raised, without gap or  *)
(* duplicate, and the numbering starts again at 1 in every call, also in a *)
(* later call on the same engine.                                          *)
(***************************************************************************)
C15_IdsNumbered ==
  Done =>
    /\ \A i \in 1..Len(result.mismatches) : result.mismatches[i].id = i
    /\ mismatchIdCounter = Len(result.mismatches)

\* a second or third call that raised mismatches after a call that raised some
C15_Witness ==
  /\ Done
  /\ Len(returned) >= 1
  /\ Len(returned[1].atReturn.mismatches) >= 2
  /\ Len(result.mismatches) >= 2

(***************************************************************************)
(* C16.  A ComparisonResult that compare() returned is not changed by any  *)
(* later compare() call on the same engine: its mismatch list, category    *)
(* scores, overall score and summary stay as they were returned.           *)
(***************************************************************************)
\* the result an earlier caller holds, as it reads now
ResultSeenNow(r) == [r.atReturn EXCEPT !.mismatches = arrays[r.ref]]

C16_ReturnedResultsKept ==
  \A k \in 1..Len(returned) : ResultSeenNow(returned[k]) = returned[k].atReturn

\* three calls with three different results, the first one with mismatches
C16_Witness ==
  /\ Done
  /\ Len(returned) = 2
  /\ returned[1].atReturn.mismatches # <<>>
  /\ returned[1].atReturn # returned[2].atReturn
  /\ returned[2].atReturn # result
  /\ returned[1].atReturn.overallScore # result.overallScore

(***************************************************************************)
(* VisualDiffEngine.  A decoded PNG is [width, height, data], data being   *)
(* the row-major sequence of pixel colours.  The colours of the model are  *)
(* opaque: "white", "red" (255,0,0), "red2" (250,0,0), "blue" (0,0,255);   *)
(* a diff image also holds "yellow" (255,255,0) and "gray" (a blended      *)
(* grey level).                                                            *)
(***************************************************************************)
MaxWidth == 4       \* width of the widest image drawn
MaxHeight == 4      \* height of the tallest image drawn

DEFAULT_OPTIONS ==
  [threshold |-> "0.1", includeAA |-> FALSE, alpha |-> "0.1",
   diffColor |-> "red", diffColorAlt |-> "yellow"]

PixelAt(img, x, y) == img.data[y * img.width + x + 1]

\* the source stretched over the canvas, nearest neighbour
resizeImageScaled(img, targetWidth, targetHeight) ==
  [width |-> targetWidth, height |-> targetHeight,
   data |-> [i \in 1..(targetWidth * targetHeight) |->
               PixelAt(img, (((i - 1) % targetWidth) * img.width) \div targetWidth,
                       (((i - 1) \div targetWidth) * img.height) \div targetHeight)]]

\* resizeImage: a white canvas with the source copied into the top-left corner
resizeImage(img, targetWidth, targetHeight) ==
  IF img.width = targetWidth /\ img.height = targetHeight THEN img
  ELSE [width |-> targetWidth, height |-> targetHeight,
        data |-> [i \in 1..(targetWidth * targetHeight) |->
                    LET x == (i - 1) % targetWidth
                        y == (i - 1) \div targetWidth
                    IN IF y < img.height /\ x < img.width
                       THEN PixelAt(img, x, y) ELSE "white"]]

normalizeImageSizes(img1, img2) ==
  LET width == Max(img1.width, img2.width)
      height == Max(img1.height, img2.height)
  IN IF img1.width = img2.width /\ img1.height = img2.height
     THEN [width |-> width, height |-> height, resizedImg1 |-> img1, resizedImg2 |-> img2]
     ELSE [width |-> width, height |-> height,
           resizedImg1 |-> resizeImage(img1, width, height),
           resizedImg2 |-> resizeImage(img2, width, height)]

\* pixelmatch: rounded luma (Y of YIQ) of a colour
Brightness(c) ==
  CASE c = "white" -> 255
    [] c = "red" -> 76
    [] c = "red2" -> 75
    [] c = "blue" -> 29

\* pixelmatch: |colorDelta| > 35215 * threshold^2 at the threshold 0.1;
\* of the model's colours only red and red2 are that close
ExceedsThreshold(c1, c2) == c1 # c2 /\ {c1, c2} # {"red", "red2"}

\* pixelmatch(img1, img2, output, width, height, options): the number of
\* differing pixels and the output written.  A differing pixel is drawn in
\* diffColorAlt when the first image is the brighter one (colorDelta < 0),
\* in diffColor otherwise; a matching pixel is drawn grey.  The images of
\* the model have two colours at most, so that no pixel has both a darker
\* and a brighter neighbour and the anti-aliasing test is negative.
pixelmatch(data1, data2, width, height, options) ==
  LET n == width * height
      Differs(i) == ExceedsThreshold(data1[i], data2[i])
      output == [i \in 1..n |->
                   IF ~Differs(i) THEN "gray"
                   ELSE IF Brightness(data1[i]) > Brightness(data2[i])
                        THEN options.diffColorAlt
                        ELSE options.diffColor]
  IN [mismatchedPixels |-> Cardinality({i \in 1..n : Differs(i)}),
      data |-> output]

\* "limit stack size to prevent memory issues"
StackCap == 100000
\* "filter out very small regions (noise)"
MinRegionPixels == 10
\* findDiffAreas: mergeNearbyRegions(areas, 20)
MergeThreshold == 20

NoRegion == [x |-> -1, y |-> -1, width |-> 0, height |-> 0]

\* a stack that is never found too long
OverCapNever(stack, cap) == FALSE

\* if (stack.length > 100000) break;
OverCap(stack, cap) == Len(stack) > cap

\* the body of the while-loop of floodFillRegion, run on the loop's
\* variables f; `broke` is set by the break at the stack cap
FloodBodyCapped(diffImage, f, cap) ==
  LET top == f.stack[Len(f.stack)]
      rest == SubSeq(f.stack, 1, Len(f.stack) - 1)
      x == top[1]
      y == top[2]
      pixelKey == y * diffImage.width + x
  IN IF x < 0 \/ x >= diffImage.width \/ y < 0 \/ y >= diffImage.height
        \/ pixelKey \in f.visited
     THEN [f EXCEPT !.stack = rest]
     ELSE IF PixelAt(diffImage, x, y) # "red"
     THEN [f EXCEPT !.stack = rest]
     ELSE LET pushed == rest \o << <<x + 1, y>>, <<x - 1, y>>,
                                  <<x, y + 1>>, <<x, y - 1>> >>
          IN [stack |-> pushed,
              visited |-> f.visited \cup {pixelKey},
              box |-> [minX |-> Min(f.box.minX, x), maxX |-> Max(f.box.maxX, x),
                       minY |-> Min(f.box.minY, y), maxY |-> Max(f.box.maxY, y),
                       pixelCount |-> f.box.pixelCount + 1],
              broke |-> OverCap(pushed, cap)]

\* the body with the cap of the source
FloodBody(diffImage, f) == FloodBodyCapped(diffImage, f, StackCap)

\* the loop's variables after the body has run until the loop ends or n
\* passes are made, whichever comes first; n passes are made as two runs
RECURSIVE FloodRun(_, _, _)
FloodRun(diffImage, f, n) ==
  IF Len(f.stack) = 0 \/ f.broke \/ n = 0 THEN f
  ELSE IF n = 1 THEN FloodBody(diffImage, f)
  ELSE FloodRun(diffImage, FloodRun(diffImage, f, n \div 2), n - n \div 2)

\* while (stack.length > 0): runs of as many passes as the image has pixels,
\* until the loop ends
RECURSIVE FloodLoop(_, _)
FloodLoop(diffImage, f) ==
  IF Len(f.stack) = 0 \/ f.broke THEN f
  ELSE FloodLoop(diffImage,
                 FloodRun(diffImage, f, diffImage.width * diffImage.height))

\* a fill that starts with a visited set of its own
FillStartFresh(startX, startY, visited) ==
  [stack |-> << <<startX, startY>> >>,
   visited |-> {},
   box |-> [minX |-> startX, maxX |-> startX,
            minY |-> startY, maxY |-> startY, pixelCount |-> 0],
   broke |-> FALSE]

\* the loop's variables when floodFillRegion enters its while-loop
FillStart(startX, startY, visited) ==
  [stack |-> << <<startX, startY>> >>,
   visited |-> visited,
   box |-> [minX |-> startX, maxX |-> startX,
            minY |-> startY, maxY |-> startY, pixelCount |-> 0],
   broke |-> FALSE]

\* what floodFillRegion returns after the loop: null for fewer than 10
\* pixels, the bounding box otherwise
FillReturned(box) ==
  IF box.pixelCount < MinRegionPixels THEN NoRegion
  ELSE [x |-> box.minX, y |-> box.minY,
        width |-> box.maxX - box.minX + 1,
        height |-> box.maxY - box.minY + 1]

\* returns the visited set as well, which the caller shares with every fill
floodFillRegion(diffImage, startX, startY, visited) ==
  LET r == FloodLoop(diffImage, FillStart(startX, startY, visited))
  IN [visited |-> r.visited, region |-> FillReturned(r.box)]

\* the row-major scan of findDiffAreas from pixel key k on
RECURSIVE ScanLoop(_, _, _, _)
ScanLoop(diffImage, k, visited, areas) ==
  IF k >= diffImage.width * diffImage.height
  THEN [visited |-> visited, areas |-> areas]
  ELSE IF k \in visited
          \/ PixelAt(diffImage, k % diffImage.width, k \div diffImage.width) # "red"
  THEN ScanLoop(diffImage, k + 1, visited, areas)
  ELSE LET r == floodFillRegion(diffImage, k % diffImage.width,
                                k \div diffImage.width, visited)
       IN ScanLoop(diffImage, k + 1, r.visited,
                   IF r.region # NoRegion THEN Append(areas, r.region) ELSE areas)

regionsOverlapOrNear(a, b, threshold) ==
  LET aRight == a.x + a.width
      aBottom == a.y + a.height
      bRight == b.x + b.width
      bBottom == b.y + b.height
  IN ~(\/ aRight + threshold < b.x
       \/ bRight + threshold < a.x
       \/ aBottom + threshold < b.y
       \/ bBottom + threshold < a.y)

\* a merge that keeps the first region as it is
mergeRegionsFirst(a, b) == a

mergeRegions(a, b) ==
  LET x == Min(a.x, b.x)
      y == Min(a.y, b.y)
      right == Max(a.x + a.width, b.x + b.width)
      bottom == Max(a.y + a.height, b.y + b.height)
  IN [x |-> x, y |-> y, width |-> right - x, height |-> bottom - y]

\* for (let j = 0; ...) of mergeNearbyRegions, from region j on
RECURSIVE MergeScan(_, _, _, _, _, _)
MergeScan(rs, threshold, j, current, used, changed) ==
  IF j > Len(rs) THEN [current |-> current, used |-> used, changed |-> changed]
  ELSE IF j \in used THEN MergeScan(rs, threshold, j + 1, current, used, changed)
  ELSE IF regionsOverlapOrNear(current, rs[j], threshold)
  THEN MergeScan(rs, threshold, j + 1, mergeRegions(current, rs[j]),
                 used \cup {j}, TRUE)
  ELSE MergeScan(rs, threshold, j + 1, current, used, changed)

\* while (changed)
RECURSIVE MergeWhile(_, _, _, _)
MergeWhile(rs, threshold, current, used) ==
  LET r == MergeScan(rs, threshold, 1, current, used, FALSE) IN
  IF r.changed THEN MergeWhile(rs, threshold, r.current, r.used)
  ELSE [current |-> r.current, used |-> r.used]

\* for (let i = 0; ...) of mergeNearbyRegions, from region i on
RECURSIVE MergeOuter(_, _, _, _, _)
MergeOuter(rs, threshold, i, used, out) ==
  IF i > Len(rs) THEN out
  ELSE IF i \in used THEN MergeOuter(rs, threshold, i + 1, used, out)
  ELSE LET r == MergeWhile(rs, threshold, rs[i], used \cup {i}) IN
       MergeOuter(rs, threshold, i + 1, r.used, Append(out, r.current))

mergeNearbyRegions(rs, threshold) ==
  IF Len(rs) <= 1 THEN rs
  ELSE MergeOuter(rs, threshold, 1, {}, <<>>)

findDiffAreas(diffImage, mismatchedPixels) ==
  IF mismatchedPixels = 0 THEN <<>>
  ELSE mergeNearbyRegions(ScanLoop(diffImage, 0, {}, <<>>).areas, MergeThreshold)

\* VisualCompare with the percentage taken from the mismatched pixels
VisualCompareInverted(img1, img2, options) ==
  LET norm == normalizeImageSizes(img1, img2)
      pm == pixelmatch(norm.resizedImg1.data, norm.resizedImg2.data,
                       norm.width, norm.height, options)
      diff == [width |-> norm.width, height |-> norm.height, data |-> pm.data]
      totalPixels == norm.width * norm.height
  IN [diffImage |-> diff,
      matchPercentage |-> MathRoundDiv(pm.mismatchedPixels * 10000, totalPixels),
      mismatchedPixels |-> pm.mismatchedPixels,
      totalPixels |-> totalPixels,
      diffAreas |-> findDiffAreas(diff, pm.mismatchedPixels)]

\* VisualDiffEngine.compare on two decoded images.  matchPercentage is
\* kept in hundredths of a percent: Math.round(matchPercentage * 100) / 100.
VisualCompare(img1, img2, options) ==
  LET mergedOptions == options
      norm == normalizeImageSizes(img1, img2)
      pm == pixelmatch(norm.resizedImg1.data, norm.resizedImg2.data,
                       norm.width, norm.height, mergedOptions)
      diff == [width |-> norm.width, height |-> norm.height, data |-> pm.data]
      totalPixels == norm.width * norm.height
  IN [diffImage |-> diff,
      matchPercentage |->
        MathRoundDiv((totalPixels - pm.mismatchedPixels) * 10000, totalPixels),
      mismatchedPixels |-> pm.mismatchedPixels,
      totalPixels |-> totalPixels,
      diffAreas |-> findDiffAreas(diff, pm.mismatchedPixels)]

\* a base64 argument whose bytes pngjs cannot parse
NotPng == [width |-> -1, height |-> -1, data |-> <<>>]

\* decodeBase64Image: the promise resolves with the parsed PNG, or is
\* rejected with new Error(`Failed to parse image: ...`)
decodeBase64Image(base64) ==
  IF base64 = NotPng
  THEN [resolved |-> FALSE, data |-> NotPng,
        error |-> [name |-> "Error", message |-> "Failed to parse image"]]
  ELSE [resolved |-> TRUE, data |-> base64, error |-> NoError]

\* compare(image1Base64, image2Base64): the two awaited decodes, the first
\* rejection ending the call, then the comparison of the decoded images
VisualDiff ==
  /\ dpc = "idle"
  /\ LET img1 == decodeBase64Image(image1)
         img2 == decodeBase64Image(image2)
     IN IF ~img1.resolved \/ ~img2.resolved
        THEN /\ diffError' = (IF ~img1.resolved THEN img1.error ELSE img2.error)
             /\ dpc' = "rejected"
             /\ UNCHANGED diffResult
        ELSE /\ diffResult' = VisualCompare(img1.data, img2.data, DEFAULT_OPTIONS)
             /\ dpc' = "done"
             /\ UNCHANGED diffError
  /\ UNCHANGED <<image1, image2>>
  /\ UNCHANGED compareVars
  /\ UNCHANGED mergeVars
  /\ UNCHANGED stepVars

(***************************************************************************)
(* Images drawn: a background with a block of another colour at the        *)
(* origin, in four sizes.                                                  *)
(***************************************************************************)
Palette == {"white", "red", "red2", "blue"}

BlockImage(w, h, bg, fg, bw, bh) ==
  [width |-> w, height |-> h,
   data |-> [i \in 1..(w * h) |->
               IF (i - 1) % w < bw /\ (i - 1) \div w < bh THEN fg ELSE bg]]

Images ==
  {BlockImage(w, h, bg, fg, bw, bh) :
     w \in {MaxWidth - 2, MaxWidth}, h \in {MaxHeight - 1, MaxHeight},
     bg \in {"white", "red"}, fg \in Palette,
     bw \in {0, MaxWidth - 2}, bh \in {0, MaxHeight - 2, MaxHeight - 1, MaxHeight}}

\* the arguments of compare(): base64 strings of PNG files, or of bytes
\* that are no PNG
Arguments == Images \cup {NotPng}

InitDiff ==
  /\ image1 \in Arguments
  /\ image2 \in Arguments
  /\ diffResult = NoDiffResult
  /\ diffError = NoError
  /\ dpc = "idle"
  /\ CompareIdle
  /\ MergeIdle
  /\ StepIdle

NextDiff == VisualDiff

SpecDiff == InitDiff /\ [][NextDiff]_vars

(***************************************************************************)
(* Region merge on its own: mergeNearbyRegions applied to a list of        *)
(* bounding boxes, then to its own output.                                 *)
(***************************************************************************)
MaxRegions == 3     \* longest list of regions drawn
MaxGrid == 3        \* boxes are placed at 0, 15, .., 15 * MaxGrid

Boxes ==
  {[x |-> 15 * i, y |-> 15 * j, width |-> 10, height |-> 10] :
     i \in 0..MaxGrid, j \in 0..MaxGrid}

MergeNearby ==
  /\ mpc = "idle"
  /\ merged' = mergeNearbyRegions(regions, MergeThreshold)
  /\ mpc' = "merged"
  /\ UNCHANGED <<regions, remerged>>
  /\ UNCHANGED compareVars
  /\ UNCHANGED diffVars
  /\ UNCHANGED stepVars

MergeAgain ==
  /\ mpc = "merged"
  /\ remerged' = mergeNearbyRegions(merged, MergeThreshold)
  /\ mpc' = "remerged"
  /\ UNCHANGED <<regions, merged>>
  /\ UNCHANGED compareVars
  /\ UNCHANGED diffVars
  /\ UNCHANGED stepVars

InitMerge ==
  /\ regions \in SeqsUpTo(Boxes, MaxRegions)
  /\ merged = <<>>
  /\ remerged = <<>>
  /\ mpc = "idle"
  /\ CompareIdle
  /\ DiffIdle
  /\ StepIdle

NextMerge == MergeNearby \/ MergeAgain

SpecMerge == InitMerge /\ [][NextMerge]_vars

(***************************************************************************)
(* mergeNearbyRegions step by step: the for-loop over the seeds i, the     *)
(* while (changed) loop and the for-loop over j, one test per step.  The   *)
(* fields of `merging` are the locals of the method (indices from 1);      *)
(* parts and groups record which input regions went into current and into  *)
(* each region of merged.                                                  *)
(***************************************************************************)
\* the three regions that merge late, a box that holds them and a far one
MergingBoxes ==
  {[x |-> 0, y |-> 0, width |-> 10, height |-> 10],
   [x |-> 15, y |-> 45, width |-> 10, height |-> 10],
   [x |-> 45, y |-> 15, width |-> 10, height |-> 10],
   [x |-> 0, y |-> 0, width |-> 60, height |-> 60],
   [x |-> 90, y |-> 90, width |-> 10, height |-> 10]}

InitMerging ==
  /\ \E rs \in SeqsUpTo(MergingBoxes, MaxRegions) :
       merging = [NoMerging EXCEPT !.regions = rs, !.pc = "start"]
  /\ CompareIdle
  /\ DiffIdle
  /\ MergeIdle
  /\ FloodIdle
  /\ OverlapIdle
  /\ ValidateIdle

\* if (regions.length <= 1) return regions; else the loop over i begins
MergingEnter ==
  /\ merging.pc = "start"
  /\ merging' =
       IF Len(merging.regions) <= 1
       THEN [merging EXCEPT !.merged = merging.regions,
                            !.groups = [k \in 1..Len(merging.regions) |-> {k}],
                            !.pc = "done"]
       ELSE [merging EXCEPT !.i = 1, !.pc = "for-i"]
  /\ UNCHANGED <<compareVars, diffVars, mergeVars, floodVars, overlapVars, validateVars>>

\* for (let i = 0; i < regions.length; i++): the test, `continue` for a
\* used region, else the statements before the while-loop; return merged
MergingSeed ==
  /\ merging.pc = "for-i"
  /\ merging' =
       IF merging.i > Len(merging.regions) THEN [merging EXCEPT !.pc = "done"]
       ELSE IF merging.i \in merging.used THEN [merging EXCEPT !.i = merging.i + 1]
       ELSE [merging EXCEPT !.current = merging.regions[merging.i],
                            !.used = merging.used \cup {merging.i},
                            !.parts = {merging.i},
                            !.changed = TRUE,
                            !.pc = "while"]
  /\ UNCHANGED <<compareVars, diffVars, mergeVars, floodVars, overlapVars, validateVars>>

\* while (changed): another pass over j, or merged.push(current)
MergingWhile ==
  /\ merging.pc = "while"
  /\ merging' =
       IF merging.changed
       THEN [merging EXCEPT !.changed = FALSE, !.j = 1, !.pc = "for-j"]
       ELSE [merging EXCEPT !.merged = Append(merging.merged, merging.current),
                            !.groups = Append(merging.groups, merging.parts),
                            !.i = merging.i + 1,
                            !.pc = "for-i"]
  /\ UNCHANGED <<compareVars, diffVars, mergeVars, floodVars, overlapVars, validateVars>>

\* for (let j = 0; j < regions.length; j++): the test and one pass
MergingScan ==
  /\ merging.pc = "for-j"
  /\ merging' =
       IF merging.j > Len(merging.regions) THEN [merging EXCEPT !.pc = "while"]
       ELSE IF merging.j \in merging.used THEN [merging EXCEPT !.j = merging.j + 1]
       ELSE IF regionsOverlapOrNear(merging.current, merging.regions[merging.j],
                                    MergeThreshold)
       THEN [merging EXCEPT !.current = mergeRegions(merging.current,
                                                     merging.regions[merging.j]),
                            !.used = merging.used \cup {merging.j},
                            !.parts = merging.parts \cup {merging.j},
                            !.changed = TRUE,
                            !.j = merging.j + 1]
       ELSE [merging EXCEPT !.j = merging.j + 1]
  /\ UNCHANGED <<compareVars, diffVars, mergeVars, floodVars, overlapVars, validateVars>>

NextMerging == MergingEnter \/ MergingSeed \/ MergingWhile \/ MergingScan

SpecMerging == InitMerging /\ [][NextMerging]_vars

\* the method is synchronous code: a step that can be taken is taken
SpecMergingFair == SpecMerging /\ WF_vars(NextMerging)

(***************************************************************************)
(* VisualDiffEngine.compare() called twice on one engine, the calls        *)
(* overlapping: a call is suspended at each await (the two decodes, the    *)
(* encode) and the other call may run meanwhile.  The engine has no        *)
(* fields; what a call works on are its locals, kept in diffCalls.         *)
(***************************************************************************)
DiffCallers == {"first", "second"}

\* the set of an earlier call taken up again
EarlierVisitedSet(earlier) == earlier

\* const visited = new Set<number>(), whatever an earlier call visited
NewVisitedSet(earlier) == {}

\* findDiffAreas with its visited set at the end
findDiffAreasVisiting(diffImage, mismatchedPixels, earlier) ==
  IF mismatchedPixels = 0 THEN [areas |-> <<>>, visited |-> earlier]
  ELSE LET r == ScanLoop(diffImage, 0, NewVisitedSet(earlier), <<>>)
       IN [areas |-> mergeNearbyRegions(r.areas, MergeThreshold),
           visited |-> r.visited]

\* pairs of arguments: a red and a white image of one size, two equal
\* images, images of two sizes, and bytes that are no PNG in either place
OverlapArguments ==
  LET white == BlockImage(MaxWidth, MaxHeight, "white", "white", 0, 0)
      red == BlockImage(MaxWidth, MaxHeight, "red", "red", 0, 0)
      short == BlockImage(MaxWidth, MaxHeight - 1, "red", "red", 0, 0)
  IN {<<red, white>>, <<white, white>>, <<short, white>>,
      <<NotPng, white>>, <<white, NotPng>>}

NoDiffCall ==
  [pc |-> "idle", image1Base64 |-> NotPng, image2Base64 |-> NotPng,
   img1 |-> NoImage, img2 |-> NoImage, diff |-> NoImage, mismatchedPixels |-> 0,
   result |-> NoDiffResult, error |-> NoError, during |-> {}]

InitOverlap ==
  /\ \E a \in [DiffCallers -> OverlapArguments] :
       diffCalls = [c \in DiffCallers |->
                      [NoDiffCall EXCEPT !.image1Base64 = a[c][1],
                                         !.image2Base64 = a[c][2]]]
  /\ lastVisited = {}
  /\ CompareIdle
  /\ DiffIdle
  /\ MergeIdle
  /\ FloodIdle
  /\ MergingIdle
  /\ ValidateIdle

\* the calls that have begun and not ended
InProgress == {d \in DiffCallers : diffCalls[d].pc \in {"decode1", "decode2", "encode"}}

\* compare() is called: up to await this.decodeBase64Image(image1Base64)
OverlapCall(c) ==
  /\ diffCalls[c].pc = "idle"
  /\ diffCalls' = [d \in DiffCallers |->
                     IF d = c THEN [diffCalls[c] EXCEPT !.pc = "decode1",
                                                        !.during = InProgress]
                     ELSE IF d \in InProgress
                          THEN [diffCalls[d] EXCEPT !.during = @ \cup {c}]
                          ELSE diffCalls[d]]
  /\ UNCHANGED lastVisited
  /\ UNCHANGED <<compareVars, diffVars, mergeVars, floodVars, merging, validateVars>>

\* the first decode has settled: img1, up to the await of the second
OverlapDecoded1(c) ==
  /\ diffCalls[c].pc = "decode1"
  /\ LET img1 == decodeBase64Image(diffCalls[c].image1Base64) IN
     diffCalls' = [diffCalls EXCEPT ![c] =
                     IF img1.resolved
                     THEN [@ EXCEPT !.img1 = img1.data, !.pc = "decode2"]
                     ELSE [@ EXCEPT !.error = img1.error, !.pc = "rejected"]]
  /\ UNCHANGED lastVisited
  /\ UNCHANGED <<compareVars, diffVars, mergeVars, floodVars, merging, validateVars>>

\* the second decode has settled: img2, normalizeImageSizes, pixelmatch,
\* up to await this.encodeImageToBase64(diff)
OverlapDecoded2(c) ==
  /\ diffCalls[c].pc = "decode2"
  /\ LET img2 == decodeBase64Image(diffCalls[c].image2Base64)
         norm == normalizeImageSizes(diffCalls[c].img1, img2.data)
         pm == pixelmatch(norm.resizedImg1.data, norm.resizedImg2.data,
                          norm.width, norm.height, DEFAULT_OPTIONS)
     IN diffCalls' = [diffCalls EXCEPT ![c] =
                        IF img2.resolved
                        THEN [@ EXCEPT !.img2 = img2.data,
                                       !.diff = [width |-> norm.width,
                                                 height |-> norm.height,
                                                 data |-> pm.data],
                                       !.mismatchedPixels = pm.mismatchedPixels,
                                       !.pc = "encode"]
                        ELSE [@ EXCEPT !.error = img2.error, !.pc = "rejected"]]
  /\ UNCHANGED lastVisited
  /\ UNCHANGED <<compareVars, diffVars, mergeVars, floodVars, merging, validateVars>>

\* the encode has settled: findDiffAreas, and the result is returned
OverlapEncoded(c) ==
  /\ diffCalls[c].pc = "encode"
  /\ LET call == diffCalls[c]
         totalPixels == call.diff.width * call.diff.height
         found == findDiffAreasVisiting(call.diff, call.mismatchedPixels, lastVisited)
     IN /\ diffCalls' = [diffCalls EXCEPT ![c] =
                           [@ EXCEPT !.result =
                                       [diffImage |-> call.diff,
                                        matchPercentage |->
                                          MathRoundDiv((totalPixels - call.mismatchedPixels)
                                                       * 10000, totalPixels),
                                        mismatchedPixels |-> call.mismatchedPixels,
                                        totalPixels |-> totalPixels,
                                        diffAreas |-> found.areas],
                                     !.pc = "done"]]
        /\ lastVisited' = found.visited
  /\ UNCHANGED <<compareVars, diffVars, mergeVars, floodVars, merging, validateVars>>

NextOverlap ==
  \E c \in DiffCallers :
     OverlapCall(c) \/ OverlapDecoded1(c) \/ OverlapDecoded2(c) \/ OverlapEncoded(c)

SpecOverlap == InitOverlap /\ [][NextOverlap]_vars

(***************************************************************************)
(* ValidatorService.validate() called twice on one service, as the         *)
(* 'validate' handler of the main process does for two requests.  A call   *)
(* is suspended at each await and resumes in a step of its own; a promise  *)
(* that is rejected resumes the call in its catch block.  The service has  *)
(* one WebAnalyzer, whose fields browser, context and page name the        *)
(* objects of the call that launched them ("null" for none).  The progress *)
(* callback and the close() methods of the browser objects do not throw.   *)
(***************************************************************************)
ValidateCallers == {"first", "second"}

\* what a call is asked and meets: the web source, the stage that throws
\* for reasons of its own, and whether the LLM service is configured and
\* answers
Scenarios ==
  {[source |-> "url", fails |-> "none", llm |-> "answers"],
   [source |-> "url", fails |-> "none", llm |-> "fails"],
   [source |-> "url", fails |-> "web", llm |-> "absent"],
   [source |-> "url", fails |-> "figma", llm |-> "absent"],
   [source |-> "screenshot", fails |-> "none", llm |-> "absent"],
   [source |-> "screenshot", fails |-> "diff", llm |-> "answers"],
   [source |-> "invalid", fails |-> "web", llm |-> "absent"]}

NoValidation ==
  [pc |-> "idle", scenario |-> [source |-> "url", fails |-> "none", llm |-> "absent"],
   trace |-> <<>>, failure |-> "none", usedPage |-> "null", thrown |-> "none"]

InitValidate ==
  /\ \E sc \in [ValidateCallers -> Scenarios] :
       validations = [c \in ValidateCallers |-> [NoValidation EXCEPT !.scenario = sc[c]]]
  /\ webAnalyzer = [browser |-> "null", context |-> "null", page |-> "null"]
  /\ closedObjects = [browsers |-> {}, contexts |-> {}, pages |-> {}]
  /\ CompareIdle
  /\ DiffIdle
  /\ MergeIdle
  /\ FloodIdle
  /\ MergingIdle
  /\ OverlapIdle

\* what a step of call c works on
World(c) == [call |-> validations[c], analyzer |-> webAnalyzer, closed |-> closedObjects]

\* this.updateProgress(onProgress, {stage, ...}); "cleanup" marks the call
\* of this.cleanup()
Emit(call, stage) == [call EXCEPT !.trace = Append(@, stage)]

\* WebAnalyzer.close() from its k-th if on: the first field that is set has
\* its close() called and awaited; with none left, close() returns
CloseNext(w, k) ==
  IF k <= 1 /\ w.analyzer.page # "null"
  THEN [w EXCEPT !.call.pc = "close-page",
                 !.closed.pages = @ \cup {w.analyzer.page}]
  ELSE IF k <= 2 /\ w.analyzer.context # "null"
  THEN [w EXCEPT !.call.pc = "close-context",
                 !.closed.contexts = @ \cup {w.analyzer.context},
                 !.closed.pages = @ \cup {w.analyzer.context}]
  ELSE IF k <= 3 /\ w.analyzer.browser # "null"
  THEN [w EXCEPT !.call.pc = "close-browser",
                 !.closed.browsers = @ \cup {w.analyzer.browser},
                 !.closed.contexts = @ \cup {w.analyzer.browser},
                 !.closed.pages = @ \cup {w.analyzer.browser}]
  ELSE [w EXCEPT !.call.pc = "closed"]

\* finally { await this.cleanup() }
Cleanup(w) == CloseNext([w EXCEPT !.call = Emit(@, "cleanup")], 1)

\* a catch block that goes past the finally block
CaughtWithoutCleanup(w, error) ==
  [w EXCEPT !.call = [Emit(w.call, "error") EXCEPT !.failure = error, !.pc = "closed"]]

\* catch (error) { updateProgress 'error'; throw error } and the finally block
Caught(w, error) ==
  Cleanup([w EXCEPT !.call = [Emit(w.call, "error") EXCEPT !.failure = error]])

\* stage 6: updateProgress 'complete', the report, return, the finally block
Completed(w) == Cleanup([w EXCEPT !.call = Emit(@, "complete")])

\* stage 5: updateProgress 'llm-analysis', and the LLM call if the service
\* is configured and there are mismatches
AfterDiff(w) ==
  LET e == [w EXCEPT !.call = Emit(@, "llm-analysis")] IN
  IF w.call.scenario.llm # "absent" THEN [e EXCEPT !.call.pc = "llm"] ELSE Completed(e)

\* stages 3 and 4: 'comparing', compare(), 'visual-diff', to the await of
\* the visual diff
AfterFigma(w) ==
  [w EXCEPT !.call = [Emit(Emit(@, "comparing"), "visual-diff") EXCEPT !.pc = "visual-diff"]]

\* stage 2: 'analyzing-figma', to the await of analyzeFigma
AfterWeb(w) ==
  [w EXCEPT !.call = [Emit(@, "analyzing-figma") EXCEPT !.pc = "figma"]]

\* this.page!.goto / .screenshot / extractDOMTree: the call on the page the
\* field names now, a TypeError (caught by analyzeUrl) when it names none
PageOperation(w, op) ==
  IF w.analyzer.page = "null" THEN Caught(w, "page-null")
  ELSE [w EXCEPT !.call.pc = op, !.call.usedPage = w.analyzer.page]

Becomes(c, w) ==
  /\ validations' = [validations EXCEPT ![c] = w.call]
  /\ webAnalyzer' = w.analyzer
  /\ closedObjects' = w.closed
  /\ UNCHANGED <<compareVars, diffVars, mergeVars, floodVars, merging, overlapVars>>

\* validate() is called: 'analyzing-web', analyzeWeb, to its first await
ValidateCall(c) ==
  /\ validations[c].pc = "idle"
  /\ LET w == [World(c) EXCEPT !.call = Emit(@, "analyzing-web")] IN
     Becomes(c, IF w.call.scenario.source # "url" THEN [w EXCEPT !.call.pc = "analyzeWeb"]
                ELSE IF w.analyzer.page = "null" THEN [w EXCEPT !.call.pc = "launch"]
                ELSE PageOperation(w, "goto"))

\* analyzeWeb of a screenshot, or of no source at all, has settled
WebSettled(c) ==
  /\ validations[c].pc = "analyzeWeb"
  /\ Becomes(c, IF validations[c].scenario.source = "invalid"
                THEN Caught(World(c), "invalid-source")
                ELSE AfterWeb(World(c)))

\* initialize(): this.browser = await chromium.launch(...)
LaunchSettled(c) ==
  /\ validations[c].pc = "launch"
  /\ Becomes(c, [World(c) EXCEPT !.analyzer.browser = c, !.call.pc = "newContext"])

\* initialize(): this.context = await this.browser.newContext(...)
ContextSettled(c) ==
  /\ validations[c].pc = "newContext"
  /\ Becomes(c, IF c \in closedObjects.browsers
                THEN Caught(World(c), "browser-closed")
                ELSE [World(c) EXCEPT !.analyzer.context = c, !.call.pc = "newPage"])

\* initialize(): this.page = await this.context.newPage(); analyzeUrl goes on
PageSettled(c) ==
  /\ validations[c].pc = "newPage"
  /\ Becomes(c, IF c \in closedObjects.contexts
                THEN Caught(World(c), "browser-closed")
                ELSE PageOperation([World(c) EXCEPT !.analyzer.page = c], "goto"))

\* an operation on the page has settled: it failed if the page was closed,
\* or (the navigation) for reasons of its own; else the next one is called
PageOperationSettled(c) ==
  /\ validations[c].pc \in {"goto", "screenshot", "extract"}
  /\ Becomes(c, IF validations[c].usedPage \in closedObjects.pages
                THEN Caught(World(c), "page-closed")
                ELSE IF validations[c].pc = "goto" /\ validations[c].scenario.fails = "web"
                THEN Caught(World(c), "navigation")
                ELSE IF validations[c].pc = "goto" THEN PageOperation(World(c), "screenshot")
                ELSE IF validations[c].pc = "screenshot"
                THEN PageOperation(World(c), "extract")
                ELSE IF webAnalyzer.page = "null" THEN Caught(World(c), "page-null")
                ELSE AfterWeb(World(c)))

\* analyzeFigma has settled
FigmaSettled(c) ==
  /\ validations[c].pc = "figma"
  /\ Becomes(c, IF validations[c].scenario.fails = "figma"
                THEN Caught(World(c), "figma")
                ELSE AfterFigma(World(c)))

\* visualDiffEngine.compare has settled
DiffSettled(c) ==
  /\ validations[c].pc = "visual-diff"
  /\ Becomes(c, IF validations[c].scenario.fails = "diff"
                THEN Caught(World(c), "visual-diff")
                ELSE AfterDiff(World(c)))

\* llmService.analyze has settled; a rejection is logged and dropped
LlmSettled(c) ==
  /\ validations[c].pc = "llm"
  /\ Becomes(c, Completed(World(c)))

\* close(): await this.page.close() has settled; this.page = null
ClosePageSettled(c) ==
  /\ validations[c].pc = "close-page"
  /\ Becomes(c, CloseNext([World(c) EXCEPT !.analyzer.page = "null"], 2))

\* close(): await this.context.close() has settled; this.context = null
CloseContextSettled(c) ==
  /\ validations[c].pc = "close-context"
  /\ Becomes(c, CloseNext([World(c) EXCEPT !.analyzer.context = "null"], 3))

\* close(): await this.browser.close() has settled; this.browser = null
CloseBrowserSettled(c) ==
  /\ validations[c].pc = "close-browser"
  /\ Becomes(c, CloseNext([World(c) EXCEPT !.analyzer.browser = "null"], 4))

\* cleanup() has returned: validate returns the report or throws the error
ValidateEnds(c) ==
  /\ validations[c].pc = "closed"
  /\ Becomes(c, [World(c) EXCEPT
                   !.call.pc = IF validations[c].failure = "none"
                               THEN "returned" ELSE "thrown",
                   !.call.thrown = validations[c].failure])

ValidateStep(c) ==
  \/ ValidateCall(c) \/ WebSettled(c) \/ LaunchSettled(c) \/ ContextSettled(c)
  \/ PageSettled(c) \/ PageOperationSettled(c) \/ FigmaSettled(c) \/ DiffSettled(c)
  \/ LlmSettled(c) \/ ClosePageSettled(c) \/ CloseContextSettled(c)
  \/ CloseBrowserSettled(c) \/ ValidateEnds(c)

NextValidate == \E c \in ValidateCallers : ValidateStep(c)

SpecValidate == InitValidate /\ [][NextValidate]_vars

\* the requests arrive, every awaited operation settles (the page
\* operations have timeouts) and the event loop resumes the call
SpecValidateFair == SpecValidate /\ \A c \in ValidateCallers : WF_vars(ValidateStep(c))

(***************************************************************************)
(* findDiffAreas step by step: the row-major scan, and every pass of the   *)
(* while-loop of floodFillRegion as a step of its own.  The diff image is  *)
(* the one pixelmatch draws for a white image and a white image with a     *)
(* pattern of red pixels, taken in either order.  The stack cap is the     *)
(* 100000 of the source or, so that images of the model reach it, a cap    *)
(* scaled down to ScaledStackCap.                                          *)
(***************************************************************************)
FloodSize == 5          \* width and height of the images scanned
ScaledStackCap == 30    \* the stack cap scaled to these images

\* red columns from row `top` down, with or without a red bar along row `top`
PatternImage(cols, top, bar) ==
  [width |-> FloodSize, height |-> FloodSize,
   data |-> [i \in 1..(FloodSize * FloodSize) |->
               IF \/ ((i - 1) % FloodSize \in cols /\ (i - 1) \div FloodSize >= top)
                  \/ (bar /\ (i - 1) \div FloodSize = top)
               THEN "red" ELSE "white"]]

WhiteImage == PatternImage({}, 0, FALSE)

Patterns ==
  {PatternImage(cols, top, bar) :
     cols \in SUBSET (0..(FloodSize - 1)), top \in {0, 2}, bar \in BOOLEAN}

\* the call findDiffAreas(diff, mismatchedPixels) that compare() makes for
\* the two images, with the stack cap in force
\* under the options of the call: const mergedOptions = { ...DEFAULT_OPTIONS, ...options }
FloodCallWith(img1, img2, cap, mergedOptions) ==
  LET pm == pixelmatch(img1.data, img2.data, FloodSize, FloodSize, mergedOptions)
  IN [input |-> [image1 |-> img1, image2 |-> img2, options |-> mergedOptions,
                 mismatchedPixels |-> pm.mismatchedPixels, cap |-> cap],
      diff |-> [width |-> FloodSize, height |-> FloodSize, data |-> pm.data]]

FloodCall(img1, img2, cap) == FloodCallWith(img1, img2, cap, DEFAULT_OPTIONS)

\* the options of a call that asks for differing pixels in blue
BlueDiffOptions == [DEFAULT_OPTIONS EXCEPT !.diffColor = "blue"]

FloodCalls ==
  {FloodCall(p, WhiteImage, cap) : p \in Patterns, cap \in {StackCap, ScaledStackCap}}
  \cup {FloodCall(WhiteImage, p, StackCap) : p \in Patterns}
  \cup {FloodCallWith(p, WhiteImage, StackCap, BlueDiffOptions) : p \in Patterns}

InitFlood ==
  /\ \E call \in FloodCalls :
       /\ floodInput = call.input
       /\ floodDiff = call.diff
  /\ scanKey = 0
  /\ scanVisited = {}
  /\ scanAreas = <<>>
  /\ fill = NoFill
  /\ fills = <<>>
  /\ foundAreas = <<>>
  /\ fpc = "start"
  /\ CompareIdle
  /\ DiffIdle
  /\ MergeIdle
  /\ MergingIdle
  /\ OverlapIdle
  /\ ValidateIdle

\* if (mismatchedPixels === 0) return []; else the scan begins
FindStart ==
  /\ fpc = "start"
  /\ fpc' = (IF floodInput.mismatchedPixels = 0 THEN "done" ELSE "scan")
  /\ UNCHANGED <<floodInput, floodDiff, scanKey, scanVisited, scanAreas, fill, fills,
                 foundAreas>>
  /\ UNCHANGED <<compareVars, diffVars, mergeVars, merging, overlapVars, validateVars>>

\* one pixel of the scan: an unvisited red pixel starts a flood fill
ScanStep ==
  /\ fpc = "scan"
  /\ scanKey < floodDiff.width * floodDiff.height
  /\ IF scanKey \notin scanVisited
        /\ PixelAt(floodDiff, scanKey % floodDiff.width,
                   scanKey \div floodDiff.width) = "red"
     THEN /\ fill' = FillStart(scanKey % floodDiff.width,
                               scanKey \div floodDiff.width, scanVisited)
          /\ fpc' = "fill"
          /\ UNCHANGED scanKey
     ELSE /\ scanKey' = scanKey + 1
          /\ UNCHANGED <<fill, fpc>>
  /\ UNCHANGED <<floodInput, floodDiff, scanVisited, scanAreas, fills, foundAreas>>
  /\ UNCHANGED <<compareVars, diffVars, mergeVars, merging, overlapVars, validateVars>>

\* one pass of while (stack.length > 0) in floodFillRegion
FillStep ==
  /\ fpc = "fill"
  /\ Len(fill.stack) > 0 /\ ~fill.broke
  /\ fill' = FloodBodyCapped(floodDiff, fill, floodInput.cap)
  /\ UNCHANGED <<floodInput, floodDiff, scanKey, scanVisited, scanAreas, fills,
                 foundAreas, fpc>>
  /\ UNCHANGED <<compareVars, diffVars, mergeVars, merging, overlapVars, validateVars>>

\* the loop has ended: floodFillRegion returns, the scan keeps the region
\* and goes on with the next pixel
FillReturn ==
  /\ fpc = "fill"
  /\ Len(fill.stack) = 0 \/ fill.broke
  /\ fills' = Append(fills, [seed |-> scanKey, region |-> FillReturned(fill.box),
                             before |-> scanVisited, after |-> fill.visited,
                             pixelCount |-> fill.box.pixelCount,
                             broke |-> fill.broke])
  /\ scanAreas' = (IF FillReturned(fill.box) # NoRegion
                   THEN Append(scanAreas, FillReturned(fill.box)) ELSE scanAreas)
  /\ scanVisited' = fill.visited
  /\ scanKey' = scanKey + 1
  /\ fill' = NoFill
  /\ fpc' = "scan"
  /\ UNCHANGED <<floodInput, floodDiff, foundAreas>>
  /\ UNCHANGED <<compareVars, diffVars, mergeVars, merging, overlapVars, validateVars>>

\* the scan has ended: return this.mergeNearbyRegions(areas, 20)
ScanEnd ==
  /\ fpc = "scan"
  /\ scanKey >= floodDiff.width * floodDiff.height
  /\ foundAreas' = mergeNearbyRegions(scanAreas, MergeThreshold)
  /\ fpc' = "done"
  /\ UNCHANGED <<floodInput, floodDiff, scanKey, scanVisited, scanAreas, fill, fills>>
  /\ UNCHANGED <<compareVars, diffVars, mergeVars, merging, overlapVars, validateVars>>

NextFlood == FindStart \/ ScanStep \/ FillStep \/ FillReturn \/ ScanEnd

SpecFlood == InitFlood /\ [][NextFlood]_vars

\* the handler is synchronous code: a step that can be taken is taken
SpecFloodFair == SpecFlood /\ WF_vars(NextFlood)

(***************************************************************************)
(* C2.  An image compared with itself: matchPercentage 100,                *)
(* mismatchedPixels 0, totalPixels = width * height, diffAreas empty.      *)
(***************************************************************************)
C2_IdenticalImages ==
  (dpc = "done" /\ image1 = image2) =>
    /\ diffResult.matchPercentage = 10000
    /\ diffResult.mismatchedPixels = 0
    /\ diffResult.totalPixels = image1.width * image1.height
    /\ diffResult.diffAreas = <<>>

\* the unit test's case, a solid red image, at the largest size drawn
C2_Witness ==
  /\ dpc = "done"
  /\ image1 = image2
  /\ image1.width * image1.height >= MinRegionPixels
  /\ \A i \in 1..Len(image1.data) : image1.data[i] = "red"

(***************************************************************************)
(* C3.  Region merge is idempotent: merging the merged list again yields   *)
(* the same list.                                                          *)
(***************************************************************************)
C3_MergeIdempotent ==
  mpc = "remerged" => remerged = merged

(***************************************************************************)
(* C4.  No two distinct regions of the merged list overlap or lie within   *)
(* the 20px merge distance of each other.                                  *)
(***************************************************************************)
HGap(a, b) == Max(a.x, b.x) - Min(a.x + a.width, b.x + b.width)
VGap(a, b) == Max(a.y, b.y) - Min(a.y + a.height, b.y + b.height)

C4_MergedRegionsApart ==
  mpc \in {"merged", "remerged"} =>
    \A i, j \in 1..Len(merged) :
       i # j => (HGap(merged[i], merged[j]) > 20 \/ VGap(merged[i], merged[j]) > 20)

(***************************************************************************)
(* C17.  matchPercentage is (totalPixels - mismatchedPixels) / totalPixels *)
(* times 100, rounded to two decimals (here in hundredths of a percent,    *)
(* within half a hundredth of the exact value), with                       *)
(* 0 <= mismatchedPixels <= totalPixels and 0 <= matchPercentage <= 100;   *)
(* it is 0 when every pixel differs and 100 when none does.                *)
(***************************************************************************)
C17_MatchPercentage ==
  dpc = "done" =>
    LET total == diffResult.totalPixels
        mismatched == diffResult.mismatchedPixels
        percentage == diffResult.matchPercentage
    IN /\ total > 0
       /\ mismatched \in 0..total
       /\ percentage \in 0..10000
       /\ 2 * Abs(percentage * total - (total - mismatched) * 10000) <= total
       /\ mismatched = total => percentage = 0
       /\ mismatched = 0 => percentage = 10000

\* some pixels differ, not all, and the exact percentage has more than two
\* decimals
C17_Witness ==
  /\ dpc = "done"
  /\ diffResult.mismatchedPixels \in 1..(diffResult.totalPixels - 1)
  /\ ((diffResult.totalPixels - diffResult.mismatchedPixels) * 10000)
        % diffResult.totalPixels # 0

(***************************************************************************)
(* C18.  Images of different sizes are compared on a canvas of the larger  *)
(* width by the larger height: each source is copied unscaled into the     *)
(* top-left corner, every other pixel is opaque white, totalPixels is the  *)
(* larger width times the larger height, and the two decoded images are    *)
(* left as they were.                                                      *)
(***************************************************************************)
\* c is the w by h canvas of src: src in the top-left corner, white elsewhere
CanvasOf(c, src, w, h) ==
  /\ c.width = w /\ c.height = h /\ Len(c.data) = w * h
  /\ \A x \in 0..(w - 1), y \in 0..(h - 1) :
        PixelAt(c, x, y) = IF x < src.width /\ y < src.height
                           THEN PixelAt(src, x, y) ELSE "white"

SizesDiffer == image1.width # image2.width \/ image1.height # image2.height

ComparedOnCanvas ==
  (dpc = "done" /\ SizesDiffer) =>
    LET width == Max(image1.width, image2.width)
        height == Max(image1.height, image2.height)
        n == normalizeImageSizes(image1, image2)
    IN /\ n.width = width /\ n.height = height
       /\ CanvasOf(n.resizedImg1, image1, width, height)
       /\ CanvasOf(n.resizedImg2, image2, width, height)
       /\ diffResult.totalPixels = width * height
       /\ diffResult.diffImage.width = width
       /\ diffResult.diffImage.height = height
       /\ Len(diffResult.diffImage.data) = width * height
       /\ diffResult.mismatchedPixels =
            Cardinality({i \in 1..(width * height) :
                           ExceedsThreshold(n.resizedImg1.data[i], n.resizedImg2.data[i])})

C19_DecodeErrorTyped ==
  /\ (dpc # "idle" /\ NotPng \in {image1, image2}) =>
        /\ dpc = "rejected"
        /\ diffError.name = "ImageDecodeError"
        /\ diffResult = NoDiffResult
  /\ (dpc # "idle" /\ NotPng \notin {image1, image2}) =>
        /\ dpc = "done"
        /\ diffError = NoError

(***************************************************************************)
(* C20.  When every pixel of the canvas differs, as for two uniform images *)
(* of the same size and of different colours, diffAreas holds exactly one  *)
(* region, whose bounding box is the whole canvas.  pixelmatch draws a     *)
(* differing pixel in diffColorAlt (yellow) where the first image is the   *)
(* brighter one, and findDiffAreas looks for pure red only; and a canvas   *)
(* of fewer than 10 pixels is one region below the noise floor.            *)
(***************************************************************************)
Uniform(img) == \A i, j \in 1..Len(img.data) : img.data[i] = img.data[j]

C20_AllDifferOneRegion ==
  (/\ dpc = "done"
   /\ Uniform(image1) /\ Uniform(image2)
   /\ ~SizesDiffer
   /\ diffResult.mismatchedPixels = diffResult.totalPixels)
    => diffResult.diffAreas =
         << [x |-> 0, y |-> 0, width |-> image1.width, height |-> image1.height] >>

(***************************************************************************)
(* Vocabulary of the properties of the flood fill.  A pixel is named by    *)
(* its pixelKey y * width + x.                                             *)
(***************************************************************************)
RedPixels(img) == {k \in 0..(img.width * img.height - 1) : img.data[k + 1] = "red"}

\* the keys of the 4-connected neighbours of pixel k
Neighbours(img, k) ==
  {j \in 0..(img.width * img.height - 1) :
     \/ (j \div img.width = k \div img.width /\ Abs(j - k) = 1)
     \/ (j % img.width = k % img.width /\ Abs(j - k) = img.width)}

\* the red pixels 4-connected to those of S through red pixels
RECURSIVE Grow(_, _)
Grow(img, S) ==
  LET T == S \cup {j \in RedPixels(img) : \E k \in S : j \in Neighbours(img, k)}
  IN IF T = S THEN S ELSE Grow(img, T)

ComponentOf(img, k) == Grow(img, {k})

\* the tight bounding box of a non-empty set of pixels
TightBox(img, S) ==
  LET xs == {k % img.width : k \in S}
      ys == {k \div img.width : k \in S}
      minX == CHOOSE x \in xs : \A z \in xs : x <= z
      maxX == CHOOSE x \in xs : \A z \in xs : x >= z
      minY == CHOOSE y \in ys : \A z \in ys : y <= z
      maxY == CHOOSE y \in ys : \A z \in ys : y >= z
  IN [x |-> minX, y |-> minY, width |-> maxX - minX + 1, height |-> maxY - minY + 1]

FillsDone == {fills[i] : i \in 1..Len(fills)}
NoBreak == \A e \in FillsDone : ~e.broke

\* every fill that returned visited one whole component of red pixels and
\* returned its tight bounding box, or nothing for fewer than 10 pixels;
\* at the end every red pixel belongs to a component that was filled
FillsAreComponents ==
  NoBreak =>
    /\ \A e \in FillsDone :
          LET component == ComponentOf(floodDiff, e.seed) IN
          /\ e.after \ e.before = component
          /\ e.region = IF Cardinality(component) >= 10
                        THEN TightBox(floodDiff, component) ELSE NoRegion
    /\ fpc = "done" =>
          \A k \in RedPixels(floodDiff) :
             \E e \in FillsDone : k \in ComponentOf(floodDiff, e.seed)

\* img is white but for a bw by bh block of red pixels at the origin
BlockAtOrigin(img, bw, bh) ==
  \A k \in 0..(img.width * img.height - 1) :
     img.data[k + 1] = IF k % img.width < bw /\ k \div img.width < bh
                       THEN "red" ELSE "white"

\* the two images differ in a bw by bh block at the origin and nowhere else
DifferInBlock(bw, bh) ==
  \/ BlockAtOrigin(floodInput.image1, bw, bh) /\ floodInput.image2 = WhiteImage
  \/ BlockAtOrigin(floodInput.image2, bw, bh) /\ floodInput.image1 = WhiteImage

(***************************************************************************)
(* C21.  When the stack cap is not reached, each region floodFillRegion    *)
(* returns is the tight bounding box of one 4-connected component of       *)
(* diff-coloured pixels with at least 10 pixels, and a component of fewer  *)
(* pixels yields no region; so two images that differ in a block of at     *)
(* least 10 pixels at the origin, and nowhere else, yield the region of    *)
(* that block.  The first part holds of the code (FillsAreComponents).     *)
(* The second does not when the block is in the second image: the block is *)
(* darker than the white of the first image, pixelmatch draws it in        *)
(* diffColorAlt, and the fill looks for red.                               *)
(***************************************************************************)
C21_FillRegions ==
  /\ FillsAreComponents
  /\ (fpc = "done" /\ NoBreak) =>
        \A bw, bh \in 1..FloodSize :
           (bw * bh >= 10 /\ DifferInBlock(bw, bh)) =>
              \E e \in FillsDone :
                 e.region = [x |-> 0, y |-> 0, width |-> bw, height |-> bh]

(***************************************************************************)
(* C22.  As claimed: during a flood fill the stack never holds more than   *)
(* the cap, and a fill that hit the cap returns the bounding box of        *)
(* exactly the pixels it visited.                                          *)
(***************************************************************************)
\* a fill cut short returns the tight box of the pixels it visited
BrokenFillsTruncated ==
  \A e \in FillsDone :
     e.broke => /\ e.region # NoRegion
                /\ e.region = TightBox(floodDiff, e.after \ e.before)

C22_StackWithinCap ==
  /\ fpc = "fill" => Len(fill.stack) <= floodInput.cap
  /\ BrokenFillsTruncated

(***************************************************************************)
(* C22 as amended.  The length of the stack is tested after the four       *)
(* neighbours of a visited pixel are pushed, so the stack holds up to the  *)
(* cap plus 3 entries, never more; a fill whose stack is found longer than *)
(* the cap makes no further pass and returns the bounding box of exactly   *)
(* the pixels it visited.                                                  *)
(***************************************************************************)
StackWithinCapPlus3 ==
  /\ fpc = "fill" =>
        /\ Len(fill.stack) <= floodInput.cap + 3
        /\ fill.broke <=> Len(fill.stack) > floodInput.cap
  /\ BrokenFillsTruncated

C22_StackWithinCapPlus3 ==
  /\ []StackWithinCapPlus3
  /\ [][(fpc = "fill" /\ fill.broke) =>
          (fpc' = "scan" /\ Len(fills') = Len(fills) + 1)]_vars

\* a fill that hit the scaled cap and returned less than its component
C22_Witness ==
  \E e \in FillsDone :
     /\ e.broke
     /\ e.region # NoRegion
     /\ e.after \ e.before # ComponentOf(floodDiff, e.seed)

(***************************************************************************)
(* C27.  findDiffAreas terminates on every diff image, and when it ends    *)
(* every diff-coloured pixel has been added to the visited set exactly     *)
(* once: the fills visited disjoint sets of pixels, which together are the *)
(* red pixels of the image, and each fill counted the pixels it added.     *)
(* This holds too when a fill was cut short by the stack cap: the pixels   *)
(* it left out are seeds of later fills.                                   *)
(***************************************************************************)
RECURSIVE PixelsCounted(_)
PixelsCounted(k) == IF k = 0 THEN 0 ELSE fills[k].pixelCount + PixelsCounted(k - 1)

EveryRedPixelVisitedOnce ==
  fpc = "done" =>
    /\ scanVisited = RedPixels(floodDiff)
    /\ \A i \in 1..Len(fills) :
          /\ fills[i].before = (IF i = 1 THEN {} ELSE fills[i - 1].after)
          /\ fills[i].before \subseteq fills[i].after
          /\ fills[i].pixelCount = Cardinality(fills[i].after \ fills[i].before)
    /\ Len(fills) > 0 => fills[Len(fills)].after = scanVisited
    /\ PixelsCounted(Len(fills)) = Cardinality(RedPixels(floodDiff))

C27_ScanTerminatesVisitedOnce ==
  <>(fpc = "done") /\ []EveryRedPixelVisitedOnce

\* the scan has ended after a fill was cut short and a later fill started
\* from a pixel of the same component
C27_Witness ==
  /\ fpc = "done"
  /\ \E i, j \in 1..Len(fills) :
        /\ i < j
        /\ fills[i].broke
        /\ fills[j].seed \in ComponentOf(floodDiff, fills[i].seed)

\* the pixels the compare step drew in the diff colour of the call
MarkedPixels ==
  {k \in 0..(floodDiff.width * floodDiff.height - 1) :
     floodDiff.data[k + 1] = floodInput.options.diffColor}

\* the pixels of P 4-connected to those of S through pixels of P
RECURSIVE GrowWithin(_, _, _)
GrowWithin(img, P, S) ==
  LET T == S \cup {j \in P : \E k \in S : j \in Neighbours(img, k)}
  IN IF T = S THEN S ELSE GrowWithin(img, P, T)

(***************************************************************************)
(* C23.  Region extraction follows the diff colour configured for the      *)
(* call: when the diff image holds a 4-connected block of at least 10      *)
(* pixels drawn in the call's diffColor, findDiffAreas returns a non-empty *)
(* list of areas.  The code looks for (255, 0, 0) whatever the diffColor   *)
(* of the call, so a call with a blue diffColor finds nothing.             *)
(***************************************************************************)
C23_ConfiguredColourFilled ==
  (/\ fpc = "done"
   /\ \E k \in MarkedPixels :
         Cardinality(GrowWithin(floodDiff, MarkedPixels, {k})) >= MinRegionPixels)
  => foundAreas # <<>>

\* the elements of a tree in depth-first pre-order
RECURSIVE PreOrder(_)
PreOrder(elements) ==
  IF elements = <<>> THEN <<>>
  ELSE <<Head(elements)>> \o PreOrder(Head(elements).children) \o PreOrder(Tail(elements))

\* the element's id or class contains the lower-cased component name; with
\* `lowered` the id and the class are lower-cased first
NameFound(element, name, lowered) ==
  LET id == IF lowered THEN toLowerCase(element.id) ELSE element.id
      class == IF lowered THEN toLowerCase(element.className) ELSE element.className
  IN includes(id, toLowerCase(name)) \/ includes(class, toLowerCase(name))

\* the first element in pre-order that has the name, if there is one
FirstNamed(domTree, name, lowered) ==
  LET order == PreOrder(domTree)
      hits == {i \in 1..Len(order) : NameFound(order[i], name, lowered)}
  IN IF hits = {} THEN {}
     ELSE {order[CHOOSE i \in hits : \A j \in hits : i <= j]}

\* what a mismatch says, but for its id, its category and its selector
Said(m) ==
  [property |-> m.property, expectedValue |-> m.expectedValue,
   actualValue |-> m.actualValue, id |-> m.element.id,
   className |-> m.element.className, tagName |-> m.element.tagName,
   figmaComponent |-> m.figmaComponent, deviation |-> m.deviation,
   severity |-> m.severity]

\* the mismatches due for a component and its element: one for each of the
\* six properties that both have and whose numbers are more than 4 apart
DueFor(component, element) ==
  {[property |-> prop, expectedValue |-> component.styles[prop],
    actualValue |-> element.computedStyles[prop], id |-> element.id,
    className |-> element.className, tagName |-> element.tagName,
    figmaComponent |-> component.name,
    deviation |-> Dev(Abs(ParseFloatOr(component.styles[prop], 0)
                          - ParseFloatOr(element.computedStyles[prop], 0)), 1),
    severity |-> "major"] :
     prop \in {q \in Range(styleProps) :
                 /\ Truthy(component.styles[q])
                 /\ Truthy(element.computedStyles[q])
                 /\ Abs(ParseFloatOr(component.styles[q], 0)
                        - ParseFloatOr(element.computedStyles[q], 0)) > 4}}

Untagged(m) == m.figmaComponent = NoComponent

\* the mismatches are those of the token traversal alone, followed by those
\* due for each component and the first element that has its name
ComponentsAddDue(lowered) ==
  Done =>
    /\ \A c \in Range(figmaAnalysis.components) :
          {Said(m) : m \in {n \in ResultMismatches : n.figmaComponent = c.name}}
            = UNION {DueFor(c, e) : e \in FirstNamed(webAnalysis.domTree, c.name, lowered)}
    /\ \A m \in ResultMismatches :
          Untagged(m) \/ \E c \in Range(figmaAnalysis.components) : m.figmaComponent = c.name
    /\ SelectSeq(result.mismatches, Untagged)
          = ComparePasses(webAnalysis,
                          [figmaAnalysis EXCEPT !.components = <<>>]).mismatches

(***************************************************************************)
(* C24.  As claimed: for each design component the one element diffed is   *)
(* the first in depth-first pre-order whose id or class contains the       *)
(* lower-cased component name; its mismatches are major, one for each of   *)
(* the six properties whose numeric delta exceeds 4px; the token traversal *)
(* reports what it reports without components.                             *)
(***************************************************************************)
C24_ComponentMatch == ComponentsAddDue(FALSE)

(***************************************************************************)
(* C24 as amended.  The id and the class are lower-cased as well before    *)
(* the search: the element diffed is the first in depth-first pre-order    *)
(* whose lower-cased id or class contains the lower-cased component name.  *)
(***************************************************************************)
C24_ComponentMatchLowered == ComponentsAddDue(TRUE)

\* a component whose name two elements of the tree have, the first one
\* only after lower-casing, and a mismatch reported for it
C24_Witness ==
  /\ Done
  /\ \E c \in Range(figmaAnalysis.components) :
        LET order == PreOrder(webAnalysis.domTree) IN
        /\ \E i, j \in 1..Len(order) :
              /\ i < j
              /\ NameFound(order[i], c.name, TRUE)
              /\ ~NameFound(order[i], c.name, FALSE)
              /\ NameFound(order[j], c.name, TRUE)
        /\ \E m \in ResultMismatches : m.figmaComponent = c.name
  /\ \E m \in ResultMismatches : Untagged(m)

Holds(a, b) ==
  /\ a.x <= b.x /\ a.y <= b.y
  /\ b.x + b.width <= a.x + a.width
  /\ b.y + b.height <= a.y + a.height

\* the bounding box of a non-empty set of boxes
BoundingBoxOf(S) ==
  LET x == CHOOSE v \in {b.x : b \in S} : \A b \in S : v <= b.x
      y == CHOOSE v \in {b.y : b \in S} : \A b \in S : v <= b.y
      right == CHOOSE v \in {b.x + b.width : b \in S} : \A b \in S : v >= b.x + b.width
      bottom == CHOOSE v \in {b.y + b.height : b \in S} : \A b \in S : v >= b.y + b.height
  IN [x |-> x, y |-> y, width |-> right - x, height |-> bottom - y]

\* what mergeNearbyRegions has returned keeps the area of its input
NoAreaLost ==
  merging.pc = "done" =>
    /\ \A k \in 1..Len(merging.regions) :
          \E o \in 1..Len(merging.merged) : Holds(merging.merged[o], merging.regions[k])
    /\ Len(merging.groups) = Len(merging.merged)
    /\ \A o \in 1..Len(merging.merged) :
          /\ merging.groups[o] # {}
          /\ merging.merged[o]
               = BoundingBoxOf({merging.regions[k] : k \in merging.groups[o]})
    /\ \A k \in 1..Len(merging.regions) :
          \E o \in 1..Len(merging.groups) : k \in merging.groups[o]
    /\ Len(merging.merged) <= Len(merging.regions)
    /\ merging.merged = mergeNearbyRegions(merging.regions, MergeThreshold)

(***************************************************************************)
(* C28.  mergeNearbyRegions terminates for every input list and loses no   *)
(* area: every input region lies within an output region, every output     *)
(* region is the bounding box of the input regions merged into it, and the *)
(* output has no more regions than the input.                              *)
(***************************************************************************)
C28_MergeTerminatesKeepsArea ==
  <>(merging.pc = "done") /\ []NoAreaLost

\* three regions of which the first and the third were merged and the
\* second was kept apart
C28_Witness ==
  /\ merging.pc = "done"
  /\ Len(merging.regions) = 3
  /\ Len(merging.merged) = 2
  /\ \E o \in 1..2 : merging.groups[o] = {1, 3}

\* what compare() does with the two arguments when no other call runs
Alone(image1Base64, image2Base64) ==
  LET img1 == decodeBase64Image(image1Base64)
      img2 == decodeBase64Image(image2Base64)
  IN IF ~img1.resolved THEN [pc |-> "rejected", result |-> NoDiffResult, error |-> img1.error]
     ELSE IF ~img2.resolved
     THEN [pc |-> "rejected", result |-> NoDiffResult, error |-> img2.error]
     ELSE [pc |-> "done", result |-> VisualCompare(img1.data, img2.data, DEFAULT_OPTIONS),
           error |-> NoError]

(***************************************************************************)
(* C25.  compare() calls that overlap on one engine share no visited set   *)
(* and no other state: however the calls interleave at their awaits, a     *)
(* call that has ended returned, or was rejected with, what it would have  *)
(* been alone.                                                             *)
(***************************************************************************)
C25_OverlappingCallsAlone ==
  \A c \in DiffCallers :
     diffCalls[c].pc \in {"done", "rejected"} =>
       LET alone == Alone(diffCalls[c].image1Base64, diffCalls[c].image2Base64) IN
       /\ diffCalls[c].pc = alone.pc
       /\ diffCalls[c].result = alone.result
       /\ diffCalls[c].error = alone.error

\* two calls that ran while the other was in progress, and both returned
\* a region
C25_Witness ==
  \E c, d \in DiffCallers :
     /\ c # d
     /\ d \in diffCalls[c].during
     /\ diffCalls[c].pc = "done" /\ diffCalls[c].result.diffAreas # <<>>
     /\ diffCalls[d].pc = "done" /\ diffCalls[d].result.diffAreas # <<>>

Ended(c) == validations[c].pc \in {"returned", "thrown"}

\* how often stage occurs in the trace of a call
Occurrences(trace, stage) == Cardinality({i \in 1..Len(trace) : trace[i] = stage})

\* a call that has ended ran cleanup once, as the last thing it did; it
\* threw the error of the stage that threw, after an 'error' event and no
\* 'complete' event, and returned otherwise, after a 'complete' event
EndedInOrder ==
  \A c \in ValidateCallers :
     LET call == validations[c] IN
     /\ Occurrences(call.trace, "cleanup") <= 1
     /\ Ended(c) =>
          /\ Occurrences(call.trace, "cleanup") = 1
          /\ call.trace[Len(call.trace)] = "cleanup"
          /\ call.failure # "none" =>
                /\ call.pc = "thrown" /\ call.thrown = call.failure
                /\ Occurrences(call.trace, "error") = 1
                /\ Occurrences(call.trace, "complete") = 0
          /\ call.failure = "none" =>
                /\ call.pc = "returned"
                /\ Occurrences(call.trace, "complete") = 1
                /\ Occurrences(call.trace, "error") = 0
          /\ call.scenario.fails # "none" => call.failure # "none"

(***************************************************************************)
(* C29.  Every validate call ends, and runs cleanup exactly once, as its   *)
(* last step, whether it returns a report or throws; when a stage throws   *)
(* an 'error' event is emitted, the error is rethrown and no 'complete'    *)
(* event is emitted; a failure of the LLM analysis alone does not make the *)
(* call fail.                                                              *)
(***************************************************************************)
C29_CleanupOnceLast ==
  /\ []EndedInOrder
  /\ \A c \in ValidateCallers : <>Ended(c)
  /\ [](\A c \in ValidateCallers :
          (Ended(c) /\ validations[c].scenario.llm = "fails"
                    /\ "llm-analysis" \in Range(validations[c].trace))
          => validations[c].pc = "returned")

\* one call has thrown the error of its figma stage, the other has
\* returned although its LLM analysis failed, each after its cleanup
C29_Witness ==
  \E c, d \in ValidateCallers :
     /\ validations[c].pc = "thrown" /\ validations[c].thrown = "figma"
     /\ validations[d].pc = "returned" /\ validations[d].scenario.llm = "fails"

(***************************************************************************)
(* C30.  Overlapping validate calls on one service are isolated: no call   *)
(* waits for an operation on a page that a cleanup has closed, and no call *)
(* fails because the browser, the context or the page it works with was    *)
(* closed or dropped by another call's cleanup.  The service has one       *)
(* WebAnalyzer for all calls and every call closes it when it ends, so the *)
(* cleanup of a call that ends first closes the page of the other.         *)
(***************************************************************************)
C30_CleanupIsolated ==
  \A c \in ValidateCallers :
     /\ validations[c].pc \in {"goto", "screenshot", "extract"}
          => validations[c].usedPage \notin closedObjects.pages
     /\ validations[c].failure \notin {"page-closed", "page-null", "browser-closed"}

====
